---- MODULE Spec2Model ----
(***************************************************************************)
(* ThreadSafeLRU<std::string, int> of "Chapter 3/lru.cpp": a hash index    *)
(* (map) over an intrusive doubly-linked recency list bounded by the head  *)
(* and tail sentinels, every public method a critical section of one      *)
(* std::mutex.  Callers are threads; each private helper the code calls   *)
(* (removeNode, addToFront, evictLRU) and each statement that changes the *)
(* shared state is one step of the calling thread, taken while it holds   *)
(* the mutex.                                                             *)
(***************************************************************************)
EXTENDS Integers, Sequences, FiniteSets, TLC

\* ------------------------------------------------------------- bounds
MaxCapacity == 2
CounterBits == 1
CapacityBits == 3
MaxGets == 3
MaxIterations == 2
MaxOperations == 2
MaxAmount == 1
MaxPushes == 2
MaxPops == 1

\* ---------------------------------------------------------- constants
Threads == {"t1", "t2"}
Keys == {"a", "b", "c", "d"}
ConcKeys == {"a", "b"}
SeqKeys == {"a", "b", "c"}
Caller == "t1"
Values == {1, 2}
NoThread == "none"
Workers == {"w1", "w2", "w3"}
Decrementers == {"w3"}
Main == "main"
NoFinal == [set |-> FALSE, value |-> 0]
Tellers == {"p1", "p2"}
Producers == {"q1", "q2"}
Consumers == {"r1", "r2"}
StackThreads == Producers \cup Consumers
Accounts == {"Alice", "Bob"}
NoAccount == "nobody"
NoBalances == [a \in Accounts |-> 0]
NoBankCall == [op |-> "none", from |-> NoAccount, to |-> NoAccount, amount |-> 0]
NoKey == ""
NoVal == 0
Garbage == -1
Nil == -2
head == -3
tail == -4
MaxNodes == MaxCapacity + 2
Nodes == 1..MaxNodes
AllNodes == Nodes \cup {head, tail}
CounterMod == 2^CounterBits
NoRet == [kind |-> "none", a |-> 0, b |-> 0]
NoCall == [op |-> "none", key |-> NoKey, val |-> NoVal]
NoPre ==
    [order |-> <<>>, vals |-> [k \in Keys |-> NoVal],
     size |-> 0, hits |-> 0, misses |-> 0, used |-> <<>>, set |-> FALSE]

VARIABLES
    capacity, size, hits, misses,   \* ThreadSafeLRU's scalar members
    map,                            \* key -> node (Nil: no entry)
    heap,                           \* the nodes whose storage is allocated
    nkey, nval, next, prev,         \* Node's fields, per node
    mutex,                          \* the thread holding m, or NoThread
    pc, op, key, val,               \* per thread: position, method, arguments
    node,                           \* per thread: the local node / newNode / lru
    ret,                            \* per thread: the value the call returns
    ref,                            \* per thread: the node get's const V& refers to
    stale,                          \* per thread: that node was destroyed meanwhile
    expect,                         \* history: the value get saw under the mutex
    pre,                            \* history: the cache as the current call found it
    used,                           \* history: present keys by last successful get/put
    lastPut,                        \* history: the value last put for each present key
    pure, putKeys,                  \* history: only puts of distinct keys so far
    returned, thrown,               \* history: gets that returned a value / threw,
                                    \*   since construction or the last resetStats
    want,                           \* per thread: the call made and not yet begun
    counter, counter_m,             \* ThreadSafeCounter's members (m: its holder)
    cpc, creg, cleft,               \* per worker: position, the value counter++ or
                                    \*   counter-- read, iterations still to run
    incs, decs,                     \* history: increment / decrement calls completed
    cinit,                          \* history: the value the counter was built with
    final,                          \* what main's last getValue() returned
    balance, account_m,             \* per account: Account::balance, the holder of m
    bpc, bcall,                     \* per teller: position, the call it is in
    bfirst,                         \* per teller: the mutex std::scoped_lock blocks on
    bleft,                          \* per teller: operations still to run
    bret,                           \* per teller: how its last call ended
    bpre,                           \* history: the balances as the teller's call found
                                    \*   them when it had taken its mutexes
    bnet,                           \* history: deposits less withdrawals completed
    stack, stack_m,                 \* ThreadSafeStack's members (m: its holder)
    spc, sleft,                     \* per stack thread: position, pushes or
                                    \*   successful pops still to make
    sval,                           \* per stack thread: the value pushed / the result
    popped_values,                  \* per consumer: what its pops returned
    pushed,                         \* history: the values pushed so far
    sfinal                          \* what main's size() after the joins returned

lruVars == <<capacity, size, hits, misses, map, heap, nkey, nval, next, prev>>
thrVars == <<pc, op, key, val, node, ret, ref, stale>>
histVars == <<expect, pre, used, lastPut, pure, putKeys>>
statVars == <<returned, thrown>>
cacheVars == <<lruVars, mutex, thrVars, histVars, statVars, want>>
counterVars == <<counter, counter_m, cpc, creg, cleft, incs, decs, cinit, final>>
bankVars == <<balance, account_m, bpc, bcall, bfirst, bleft, bret, bpre, bnet>>
stackVars == <<stack, stack_m, spc, sleft, sval, popped_values, pushed, sfinal>>
besidesCache == <<counterVars, bankVars, stackVars>>
besidesCounter == <<cacheVars, bankVars, stackVars>>
besidesBank == <<cacheVars, counterVars, stackVars>>
besidesStack == <<cacheVars, counterVars, bankVars>>
vars == <<cacheVars, counterVars, bankVars, stackVars>>

\* ------------------------------------------------------------ helpers
\* std::weak_ptr::lock(): the node, or null once it is destroyed.
WeakLock(p) == IF p \in {head, tail} \/ p \in heap THEN p ELSE Nil

\* Mutant of Inc: the counter is not advanced.
NoInc(x) == x

\* unsigned arithmetic
Inc(x) == (x + 1) % CounterMod
Dec(x) == (x + CounterMod - 1) % CounterMod

\* The keys met walking next links from n, at most fuel nodes.
RECURSIVE Walk(_, _)
Walk(n, fuel) ==
    IF n \notin Nodes \/ fuel = 0 THEN <<>>
    ELSE <<nkey[n]>> \o Walk(next[n], fuel - 1)

\* The nodes met walking next links from n, at most fuel nodes.
RECURSIVE WalkNodes(_, _)
WalkNodes(n, fuel) ==
    IF n \notin Nodes \/ fuel = 0 THEN <<>>
    ELSE <<n>> \o WalkNodes(next[n], fuel - 1)

ListKeys == Walk(next[head], MaxNodes + 1)
ListNodes == WalkNodes(next[head], MaxNodes + 1)
MapKeys == {k \in Keys : map[k] # Nil}
Range(s) == {s[i] : i \in 1..Len(s)}
Without(s, k) == SelectSeq(s, LAMBDA x : x # k)

\* The cache as a caller holding the mutex finds it.
Snapshot ==
    [order |-> ListKeys,
     vals |-> [k \in Keys |-> IF map[k] = Nil THEN NoVal ELSE nval[map[k]]],
     size |-> size, hits |-> hits, misses |-> misses, used |-> used, set |-> TRUE]

\* ------------------------------------------------- the private helpers
\* Mutant of removeNode: the predecessor's next link is left on the node.
removeNodeKeepsNext(nx, pv, n) ==
    LET pv1 == IF nx[n] # Nil THEN [pv EXCEPT ![nx[n]] = pv[n]] ELSE pv
    IN [next |-> nx, prev |-> [pv1 EXCEPT ![n] = Nil]]

\* Mutant of removeNode: the node's own links are not cleared.
removeNodeStillLinked(nx, pv, n) ==
    LET p == WeakLock(pv[n])
        nx1 == IF p # Nil THEN [nx EXCEPT ![p] = nx[n]] ELSE nx
        pv1 == IF nx1[n] # Nil THEN [pv EXCEPT ![nx1[n]] = pv[n]] ELSE pv
    IN [next |-> nx1, prev |-> pv1]

removeNode(nx, pv, n) ==
    LET p == WeakLock(pv[n])
        nx1 == IF p # Nil THEN [nx EXCEPT ![p] = nx[n]] ELSE nx
        pv1 == IF nx1[n] # Nil THEN [pv EXCEPT ![nx1[n]] = pv[n]] ELSE pv
    IN [next |-> [nx1 EXCEPT ![n] = Nil], prev |-> [pv1 EXCEPT ![n] = Nil]]

\* Mutant of addToFront: the node is linked in before tail.
addToBack(nx, pv, n) ==
    LET nx1 == [nx EXCEPT ![n] = tail]
        pv1 == [pv EXCEPT ![n] = pv[tail]]
        nx2 == [nx1 EXCEPT ![pv[tail]] = n]
    IN [next |-> nx2, prev |-> [pv1 EXCEPT ![tail] = n]]

addToFront(nx, pv, n) ==
    LET nx1 == [nx EXCEPT ![n] = nx[head]]
        pv1 == [pv EXCEPT ![n] = head]
        pv2 == [pv1 EXCEPT ![nx1[head]] = n]
    IN [next |-> [nx1 EXCEPT ![head] = n], prev |-> pv2]

\* std::make_shared<Node>: some free storage (the allocator's lowest).
NewNode == CHOOSE n \in Nodes \ heap : \A m \in Nodes \ heap : n <= m

\* ------------------------------------------------------------ locking
\* Mutant of CanLock: the method takes no lock.
NoLock == TRUE

CanLock == mutex = NoThread

\* std::lock_guard's constructor on entry to method o with arguments k, v.
Lock(t, o, k, v, l) ==
    /\ pc[t] = "idle"
    /\ CanLock
    /\ mutex' = t
    /\ pc' = [pc EXCEPT ![t] = l]
    /\ op' = [op EXCEPT ![t] = o]
    /\ key' = [key EXCEPT ![t] = k]
    /\ val' = [val EXCEPT ![t] = v]
    /\ pre' = Snapshot
    /\ IF o = "put" /\ pure /\ k \notin Range(putKeys)
       THEN putKeys' = Append(putKeys, k) /\ pure' = TRUE
       ELSE putKeys' = <<>> /\ pure' = FALSE
    /\ UNCHANGED <<lruVars, node, ret, ref, stale, expect, used, lastPut>>
    /\ UNCHANGED <<statVars, besidesCache>>

\* A call that takes the mutex as soon as it is made.
Enter(t, o, k, v, l) == Lock(t, o, k, v, l) /\ UNCHANGED want

Goto(t, l) == pc' = [pc EXCEPT ![t] = l]

At(t, l) == pc[t] = l


Bool(b) == IF b THEN 1 ELSE 0
RetVoid == [kind |-> "void", a |-> 0, b |-> 0]
RetThrow == [kind |-> "out_of_range", a |-> 0, b |-> 0]
RetRef(n) == [kind |-> "ref", a |-> n, b |-> 0]
RetBool(x) == [kind |-> "bool", a |-> Bool(x), b |-> 0]
RetNum(k, x) == [kind |-> k, a |-> x, b |-> 0]
RetPair(k, x, y) == [kind |-> k, a |-> x, b |-> y]

\* The recency history: k was just got or put successfully.
Touch(s, k) == <<k>> \o Without(s, k)

\* The recency history without the keys that have left the index m.
Present(s, m) == SelectSeq(s, LAMBDA k : m[k] # Nil)

\* The nodes some shared_ptr still owns once thread t's local is gone: those
\* of the map, of the other threads' locals, and of the next chains from them
\* and from head.
RECURSIVE Owned(_)
Owned(S) ==
    LET S2 == S \cup ({next[n] : n \in S \cup {head}} \cap Nodes)
    IN IF S2 = S THEN S ELSE Owned(S2)

OwnedWithout(t) ==
    Owned(({map[k] : k \in Keys} \cup {node[u] : u \in Threads \ {t}}) \cap Nodes)

\* ---------------------------------------------------------------- get
get_lock(t, k) == Enter(t, "get", k, NoVal, "get_find")

\* Mutant of get_find: the node after the one found is taken.
get_find_successor(t) ==
    /\ At(t, "get_find")
    /\ IF map[key[t]] = Nil
       THEN Goto(t, "get_miss") /\ UNCHANGED <<node, used>>
       ELSE /\ node' = [node EXCEPT ![t] = IF next[map[key[t]]] \in Nodes
                                            THEN next[map[key[t]]] ELSE map[key[t]]]
            /\ used' = Touch(used, key[t])
            /\ Goto(t, "move_remove")
    /\ UNCHANGED <<lruVars, mutex, op, key, val, ret, ref, stale, expect, pre, lastPut, pure, putKeys>>
    /\ UNCHANGED <<statVars, want, besidesCache>>

get_find(t) ==
    /\ At(t, "get_find")
    /\ IF map[key[t]] = Nil
       THEN Goto(t, "get_miss") /\ UNCHANGED <<node, used>>
       ELSE /\ node' = [node EXCEPT ![t] = map[key[t]]]
            /\ used' = Touch(used, key[t])
            /\ Goto(t, "move_remove")
    /\ UNCHANGED <<lruVars, mutex, op, key, val, ret, ref, stale, expect, pre, lastPut, pure, putKeys>>
    /\ UNCHANGED <<statVars, want, besidesCache>>

\* Mutant of get_miss: the exception leaves get with the mutex still locked.
get_miss_locked(t) ==
    /\ At(t, "get_miss")
    /\ misses' = Inc(misses)
    /\ Goto(t, "idle")
    /\ op' = [op EXCEPT ![t] = "none"]
    /\ key' = [key EXCEPT ![t] = NoKey]
    /\ UNCHANGED <<capacity, size, hits, map, heap, nkey, nval, next, prev, mutex,
                   val, node, ret, ref, stale, histVars>>
    /\ UNCHANGED <<statVars, want, besidesCache>>

get_miss(t) ==
    /\ At(t, "get_miss")
    /\ misses' = Inc(misses)
    /\ ret' = [ret EXCEPT ![t] = RetThrow]
    /\ Goto(t, "exit")
    /\ UNCHANGED <<capacity, size, hits, map, heap, nkey, nval, next, prev, mutex,
                   op, key, val, node, ref, stale, histVars>>
    /\ UNCHANGED <<statVars, want, besidesCache>>

get_hit(t) ==
    /\ At(t, "get_hit")
    /\ hits' = Inc(hits)
    /\ ret' = [ret EXCEPT ![t] = RetRef(node[t])]
    /\ expect' = [expect EXCEPT ![t] = nval[node[t]]]
    /\ Goto(t, "exit")
    /\ UNCHANGED <<capacity, size, misses, map, heap, nkey, nval, next, prev, mutex,
                   op, key, val, node, ref, stale, pre, used, lastPut, pure, putKeys>>
    /\ UNCHANGED <<statVars, want, besidesCache>>

\* ------------------------------------------------------- moveToFront
moveToFront_removeNode(t) ==
    /\ At(t, "move_remove")
    /\ LET l == removeNode(next, prev, node[t])
       IN next' = l.next /\ prev' = l.prev
    /\ Goto(t, "move_add")
    /\ UNCHANGED <<capacity, size, hits, misses, map, heap, nkey, nval, mutex,
                   op, key, val, node, ret, ref, stale, histVars>>
    /\ UNCHANGED <<statVars, want, besidesCache>>

moveToFront_addToFront(t) ==
    /\ At(t, "move_add")
    /\ LET l == addToFront(next, prev, node[t])
       IN next' = l.next /\ prev' = l.prev
    /\ IF op[t] = "get"
       THEN Goto(t, "get_hit") /\ UNCHANGED ret
       ELSE Goto(t, "exit") /\ ret' = [ret EXCEPT ![t] = RetVoid]
    /\ UNCHANGED <<capacity, size, hits, misses, map, heap, nkey, nval, mutex,
                   op, key, val, node, ref, stale, histVars>>
    /\ UNCHANGED <<statVars, want, besidesCache>>

\* ----------------------------------------------------------- contains
contains_lock(t, k) == Enter(t, "contains", k, NoVal, "contains_find")

\* Mutant of contains: the lookup is counted as a hit.
containsCounts(t) ==
    /\ At(t, "contains_find")
    /\ ret' = [ret EXCEPT ![t] = RetBool(map[key[t]] # Nil)]
    /\ hits' = IF map[key[t]] # Nil THEN Inc(hits) ELSE hits
    /\ Goto(t, "exit")
    /\ UNCHANGED <<capacity, size, misses, map, heap, nkey, nval, next, prev, mutex,
                   op, key, val, node, ref, stale, histVars>>
    /\ UNCHANGED <<statVars, want, besidesCache>>

contains(t) ==
    /\ At(t, "contains_find")
    /\ ret' = [ret EXCEPT ![t] = RetBool(map[key[t]] # Nil)]
    /\ Goto(t, "exit")
    /\ UNCHANGED <<lruVars, mutex, op, key, val, node, ref, stale, histVars>>
    /\ UNCHANGED <<statVars, want, besidesCache>>

\* ---------------------------------------------------------------- put
\* Both overloads, put(const K&, const V&) and put(K&&, V&&), take these steps.
put_lock(t, k, v) == Enter(t, "put", k, v, "put_find")

put_find(t) ==
    /\ At(t, "put_find")
    /\ IF map[key[t]] # Nil
       THEN node' = [node EXCEPT ![t] = map[key[t]]] /\ Goto(t, "put_assign")
       ELSE Goto(t, "put_new") /\ UNCHANGED node
    /\ used' = Touch(used, key[t])
    /\ lastPut' = [lastPut EXCEPT ![key[t]] = val[t]]
    /\ UNCHANGED <<lruVars, mutex, op, key, val, ret, ref, stale, expect, pre, pure, putKeys>>
    /\ UNCHANGED <<statVars, want, besidesCache>>

\* Mutant of put_assign: the old value is kept.
put_assign_skipped(t) ==
    /\ At(t, "put_assign")
    /\ Goto(t, "move_remove")
    /\ UNCHANGED <<lruVars, mutex, op, key, val, node, ret, ref, stale, histVars>>
    /\ UNCHANGED <<statVars, want, besidesCache>>

\* node->value = value
put_assign(t) ==
    /\ At(t, "put_assign")
    /\ nval' = [nval EXCEPT ![node[t]] = val[t]]
    /\ Goto(t, "move_remove")
    /\ UNCHANGED <<capacity, size, hits, misses, map, heap, nkey, next, prev, mutex,
                   op, key, val, node, ret, ref, stale, histVars>>
    /\ UNCHANGED <<statVars, want, besidesCache>>

\* auto newNode = std::make_shared<Node<K, V>>(key, value)
put_new(t) ==
    /\ At(t, "put_new")
    /\ Nodes \ heap # {}
    /\ LET n == NewNode
       IN /\ heap' = heap \cup {n}
          /\ nkey' = [nkey EXCEPT ![n] = key[t]]
          /\ nval' = [nval EXCEPT ![n] = val[t]]
          /\ node' = [node EXCEPT ![t] = n]
    /\ Goto(t, "put_index")
    /\ UNCHANGED <<capacity, size, hits, misses, map, next, prev, mutex,
                   op, key, val, ret, ref, stale, histVars>>
    /\ UNCHANGED <<statVars, want, besidesCache>>

\* map[key] = newNode
put_index(t) ==
    /\ At(t, "put_index")
    /\ map' = [map EXCEPT ![key[t]] = node[t]]
    /\ Goto(t, "put_link")
    /\ UNCHANGED <<capacity, size, hits, misses, heap, nkey, nval, next, prev, mutex,
                   op, key, val, node, ret, ref, stale, histVars>>
    /\ UNCHANGED <<statVars, want, besidesCache>>

\* Mutant of put_addToFront: the new node is linked by the next pointers only.
put_addToFront_oneway(t) ==
    /\ At(t, "put_link")
    /\ next' = [next EXCEPT ![node[t]] = next[head], ![head] = node[t]]
    /\ Goto(t, "put_size")
    /\ UNCHANGED <<capacity, size, hits, misses, map, heap, nkey, nval, prev, mutex,
                   op, key, val, node, ret, ref, stale, histVars>>
    /\ UNCHANGED <<statVars, want, besidesCache>>

\* addToFront(newNode)
put_addToFront(t) ==
    /\ At(t, "put_link")
    /\ LET l == addToFront(next, prev, node[t])
       IN next' = l.next /\ prev' = l.prev
    /\ Goto(t, "put_size")
    /\ UNCHANGED <<capacity, size, hits, misses, map, heap, nkey, nval, mutex,
                   op, key, val, node, ret, ref, stale, histVars>>
    /\ UNCHANGED <<statVars, want, besidesCache>>

\* Mutant of NeedsEvict: one entry too many is let in.
NeedsEvictLate == size > capacity + 1

NeedsEvict == size > capacity

\* size++
put_size(t) ==
    /\ At(t, "put_size")
    /\ size' = size + 1
    /\ Goto(t, "put_check")
    /\ UNCHANGED <<capacity, hits, misses, map, heap, nkey, nval, next, prev, mutex,
                   op, key, val, node, ret, ref, stale, histVars>>
    /\ UNCHANGED <<statVars, want, besidesCache>>

\* Mutant of put_check: evictLRU is called after every insertion.
put_check_always(t) ==
    /\ At(t, "put_check")
    /\ Goto(t, "evict_find")
    /\ UNCHANGED <<lruVars, mutex, op, key, val, node, ret, ref, stale, histVars>>
    /\ UNCHANGED <<statVars, want, besidesCache>>

\* if (size > capacity) evictLRU()
put_check(t) ==
    /\ At(t, "put_check")
    /\ IF NeedsEvict
       THEN Goto(t, "evict_find") /\ UNCHANGED ret
       ELSE Goto(t, "exit") /\ ret' = [ret EXCEPT ![t] = RetVoid]
    /\ UNCHANGED <<lruVars, mutex, op, key, val, node, ref, stale, histVars>>
    /\ UNCHANGED <<statVars, want, besidesCache>>

\* ----------------------------------------------------------- evictLRU
\* Mutant of Victim: the node at the front is picked.
VictimAtFront == next[head]

\* The node evictLRU picks: tail->prev.lock().
Victim == WeakLock(prev[tail])

\* if (size == 0) return; auto lru = tail->prev.lock(); if (lru && lru != head)
evictLRU_find(t) ==
    /\ At(t, "evict_find")
    /\ IF size # 0 /\ Victim # Nil /\ Victim # head
       THEN /\ node' = [node EXCEPT ![t] = Victim]
            /\ Goto(t, "evict_remove")
            /\ UNCHANGED ret
       ELSE /\ Goto(t, "exit")
            /\ ret' = [ret EXCEPT ![t] = RetVoid]
            /\ UNCHANGED node
    /\ UNCHANGED <<lruVars, mutex, op, key, val, ref, stale, histVars>>
    /\ UNCHANGED <<statVars, want, besidesCache>>

evictLRU_removeNode(t) ==
    /\ At(t, "evict_remove")
    /\ LET l == removeNode(next, prev, node[t])
       IN next' = l.next /\ prev' = l.prev
    /\ Goto(t, "evict_erase")
    /\ UNCHANGED <<capacity, size, hits, misses, map, heap, nkey, nval, mutex,
                   op, key, val, node, ret, ref, stale, histVars>>
    /\ UNCHANGED <<statVars, want, besidesCache>>

\* Mutant of evictLRU_erase: the key being put is erased from the map.
evictLRU_erase_own(t) ==
    /\ At(t, "evict_erase")
    /\ map' = [k \in Keys |-> IF k = key[t] THEN Nil ELSE map[k]]
    /\ used' = Present(used, map')
    /\ lastPut' = [k \in Keys |-> IF map'[k] = Nil THEN NoVal ELSE lastPut[k]]
    /\ Goto(t, "evict_size")
    /\ UNCHANGED <<capacity, size, hits, misses, heap, nkey, nval, next, prev, mutex,
                   op, key, val, node, ret, ref, stale, expect, pre, pure, putKeys>>
    /\ UNCHANGED <<statVars, want, besidesCache>>

\* map.erase(lru->key)
evictLRU_erase(t) ==
    /\ At(t, "evict_erase")
    /\ map' = [k \in Keys |-> IF k = nkey[node[t]] THEN Nil ELSE map[k]]
    /\ used' = Present(used, map')
    /\ lastPut' = [k \in Keys |-> IF map'[k] = Nil THEN NoVal ELSE lastPut[k]]
    /\ Goto(t, "evict_size")
    /\ UNCHANGED <<capacity, size, hits, misses, heap, nkey, nval, next, prev, mutex,
                   op, key, val, node, ret, ref, stale, expect, pre, pure, putKeys>>
    /\ UNCHANGED <<statVars, want, besidesCache>>

\* size--
evictLRU_size(t) ==
    /\ At(t, "evict_size")
    /\ size' = size - 1
    /\ ret' = [ret EXCEPT ![t] = RetVoid]
    /\ Goto(t, "exit")
    /\ UNCHANGED <<capacity, hits, misses, map, heap, nkey, nval, next, prev, mutex,
                   op, key, val, node, ref, stale, histVars>>
    /\ UNCHANGED <<statVars, want, besidesCache>>

\* ------------------------------------------------------------- remove
remove_lock(t, k) == Enter(t, "remove", k, NoVal, "remove_find")

\* Mutant of remove_find: a remove that does not find its key counts a miss.
remove_find_counts(t) ==
    /\ At(t, "remove_find")
    /\ IF map[key[t]] = Nil
       THEN /\ ret' = [ret EXCEPT ![t] = RetBool(FALSE)]
            /\ misses' = Inc(misses)
            /\ Goto(t, "exit")
            /\ UNCHANGED node
       ELSE /\ node' = [node EXCEPT ![t] = map[key[t]]]
            /\ Goto(t, "remove_remove")
            /\ UNCHANGED <<ret, misses>>
    /\ UNCHANGED <<capacity, size, hits, map, heap, nkey, nval, next, prev>>
    /\ UNCHANGED <<mutex, op, key, val, ref, stale, histVars>>
    /\ UNCHANGED <<statVars, want, besidesCache>>

remove_find(t) ==
    /\ At(t, "remove_find")
    /\ IF map[key[t]] = Nil
       THEN /\ ret' = [ret EXCEPT ![t] = RetBool(FALSE)]
            /\ Goto(t, "exit")
            /\ UNCHANGED node
       ELSE /\ node' = [node EXCEPT ![t] = map[key[t]]]
            /\ Goto(t, "remove_remove")
            /\ UNCHANGED ret
    /\ UNCHANGED <<lruVars, mutex, op, key, val, ref, stale, histVars>>
    /\ UNCHANGED <<statVars, want, besidesCache>>

remove_removeNode(t) ==
    /\ At(t, "remove_remove")
    /\ LET l == removeNode(next, prev, node[t])
       IN next' = l.next /\ prev' = l.prev
    /\ Goto(t, "remove_erase")
    /\ UNCHANGED <<capacity, size, hits, misses, map, heap, nkey, nval, mutex,
                   op, key, val, node, ret, ref, stale, histVars>>
    /\ UNCHANGED <<statVars, want, besidesCache>>

\* map.erase(it)
remove_erase(t) ==
    /\ At(t, "remove_erase")
    /\ map' = [map EXCEPT ![key[t]] = Nil]
    /\ used' = Present(used, map')
    /\ lastPut' = [k \in Keys |-> IF map'[k] = Nil THEN NoVal ELSE lastPut[k]]
    /\ Goto(t, "remove_size")
    /\ UNCHANGED <<capacity, size, hits, misses, heap, nkey, nval, next, prev, mutex,
                   op, key, val, node, ret, ref, stale, expect, pre, pure, putKeys>>
    /\ UNCHANGED <<statVars, want, besidesCache>>

\* Mutant of remove_size: size is not decremented.
remove_size_kept(t) ==
    /\ At(t, "remove_size")
    /\ ret' = [ret EXCEPT ![t] = RetBool(TRUE)]
    /\ Goto(t, "exit")
    /\ UNCHANGED <<lruVars, mutex, op, key, val, node, ref, stale, histVars>>
    /\ UNCHANGED <<statVars, want, besidesCache>>

\* size--; return true
remove_size(t) ==
    /\ At(t, "remove_size")
    /\ size' = size - 1
    /\ ret' = [ret EXCEPT ![t] = RetBool(TRUE)]
    /\ Goto(t, "exit")
    /\ UNCHANGED <<capacity, hits, misses, map, heap, nkey, nval, next, prev, mutex,
                   op, key, val, node, ref, stale, histVars>>
    /\ UNCHANGED <<statVars, want, besidesCache>>

\* --------------------------------------------------------- statistics
getHitMissStats_lock(t) == Enter(t, "getHitMissStats", NoKey, NoVal, "stats_read")

getHitMissStats(t) ==
    /\ At(t, "stats_read")
    /\ ret' = [ret EXCEPT ![t] = RetPair("stats", hits, misses)]
    /\ Goto(t, "exit")
    /\ UNCHANGED <<lruVars, mutex, op, key, val, node, ref, stale, histVars>>
    /\ UNCHANGED <<statVars, want, besidesCache>>

getHitRatio_lock(t) == Enter(t, "getHitRatio", NoKey, NoVal, "ratio_read")

\* unsigned total = hits + misses; total > 0 ? double(hits) / total : 0.0
\* The quotient is returned as the pair (numerator, denominator); 0.0 is (0, 1).
getHitRatio(t) ==
    /\ At(t, "ratio_read")
    /\ LET total == (hits + misses) % CounterMod
       IN ret' = [ret EXCEPT ![t] = IF total > 0 THEN RetPair("ratio", hits, total)
                                                  ELSE RetPair("ratio", 0, 1)]
    /\ Goto(t, "exit")
    /\ UNCHANGED <<lruVars, mutex, op, key, val, node, ref, stale, histVars>>
    /\ UNCHANGED <<statVars, want, besidesCache>>

resetStats_lock(t) == Enter(t, "resetStats", NoKey, NoVal, "reset_hits")

resetStats_hits(t) ==
    /\ At(t, "reset_hits")
    /\ hits' = 0
    /\ Goto(t, "reset_misses")
    /\ UNCHANGED <<capacity, size, misses, map, heap, nkey, nval, next, prev, mutex,
                   op, key, val, node, ret, ref, stale, histVars>>
    /\ UNCHANGED <<statVars, want, besidesCache>>

\* Mutant of resetStats_misses: misses is left as it is.
resetStats_misses_kept(t) ==
    /\ At(t, "reset_misses")
    /\ ret' = [ret EXCEPT ![t] = RetVoid]
    /\ Goto(t, "exit")
    /\ UNCHANGED <<lruVars, mutex, op, key, val, node, ref, stale, histVars>>
    /\ UNCHANGED <<statVars, want, besidesCache>>

resetStats_misses(t) ==
    /\ At(t, "reset_misses")
    /\ misses' = 0
    /\ ret' = [ret EXCEPT ![t] = RetVoid]
    /\ Goto(t, "exit")
    /\ UNCHANGED <<capacity, size, hits, map, heap, nkey, nval, next, prev, mutex,
                   op, key, val, node, ref, stale, histVars>>
    /\ UNCHANGED <<statVars, want, besidesCache>>

\* Mutant of getSize_lock: getSize reads size without a lock_guard.
getSize_unguarded(t) ==
    /\ pc[t] = "idle"
    /\ pc' = [pc EXCEPT ![t] = "size_read"]
    /\ op' = [op EXCEPT ![t] = "getSize"]
    /\ pre' = Snapshot
    /\ putKeys' = <<>> /\ pure' = FALSE
    /\ UNCHANGED <<lruVars, mutex, key, val, node, ret, ref, stale, expect, used, lastPut>>
    /\ UNCHANGED <<statVars, want, besidesCache>>

getSize_lock(t) == Enter(t, "getSize", NoKey, NoVal, "size_read")

getSize(t) ==
    /\ At(t, "size_read")
    /\ ret' = [ret EXCEPT ![t] = RetNum("size", size)]
    /\ Goto(t, "exit")
    /\ UNCHANGED <<lruVars, mutex, op, key, val, node, ref, stale, histVars>>
    /\ UNCHANGED <<statVars, want, besidesCache>>

getCapacity_lock(t) == Enter(t, "getCapacity", NoKey, NoVal, "capacity_read")

getCapacity(t) ==
    /\ At(t, "capacity_read")
    /\ ret' = [ret EXCEPT ![t] = RetNum("capacity", capacity)]
    /\ Goto(t, "exit")
    /\ UNCHANGED <<lruVars, mutex, op, key, val, node, ref, stale, histVars>>
    /\ UNCHANGED <<statVars, want, besidesCache>>

\* ------------------------------------------------------ leaving a method
\* The method's locals are destroyed (a node no shared_ptr owns any more is
\* destroyed with them), then the lock_guard releases the mutex, and the
\* result reaches the caller.  A successful get hands out a reference into the
\* node, which the caller reads later, outside the critical section.
Release(t) ==
    /\ At(t, "exit")
    /\ mutex' = NoThread
    /\ LET freed == heap \ OwnedWithout(t)
       IN /\ heap' = heap \ freed
          /\ nkey' = [n \in Nodes |-> IF n \in freed THEN NoKey ELSE nkey[n]]
          /\ nval' = [n \in Nodes |-> IF n \in freed THEN NoVal ELSE nval[n]]
          /\ next' = [n \in AllNodes |-> IF n \in freed THEN Nil ELSE next[n]]
          /\ prev' = [n \in AllNodes |-> IF n \in freed THEN Nil ELSE prev[n]]
          /\ stale' = [u \in Threads |-> stale[u] \/ (pc[u] \in {"deref"} /\ ref[u] \in freed)]
    /\ IF ret[t].kind = "ref"
       THEN Goto(t, "deref") /\ ref' = [ref EXCEPT ![t] = ret[t].a]
       ELSE Goto(t, "idle") /\ UNCHANGED ref
    /\ op' = [op EXCEPT ![t] = "none"]
    /\ key' = [key EXCEPT ![t] = NoKey]
    /\ val' = [val EXCEPT ![t] = NoVal]
    /\ node' = [node EXCEPT ![t] = Nil]
    /\ ret' = [ret EXCEPT ![t] = NoRet]
    /\ pre' = NoPre
    /\ UNCHANGED <<capacity, size, hits, misses, map, expect, used, lastPut, pure, putKeys>>
    /\ UNCHANGED <<want, besidesCache>>

\* The end of a call in a run that keeps no count of the gets.
Unlock(t) == Release(t) /\ UNCHANGED statVars

\* The same with the caller's bookkeeping: successfulGets++ after a get that
\* returned, failedGets++ after one that threw; both start again at a
\* resetStats.
Unlock_counted(t) ==
    /\ Release(t)
    /\ returned' = IF op[t] = "resetStats" THEN 0
                   ELSE IF ret[t].kind = "ref" THEN returned + 1 ELSE returned
    /\ thrown' = IF op[t] = "resetStats" THEN 0
                 ELSE IF ret[t] = RetThrow THEN thrown + 1 ELSE thrown

\* A get by a caller whose gets are counted, MaxGets of them at most between
\* two resets.
get_lock_counted(t, k) == returned + thrown < MaxGets /\ get_lock(t, k)

\* What a read through thread t's reference yields.  A read of a destroyed
\* node is undefined: it yields any int, a value once stored or not.
ReadValues(t) == IF stale[t] THEN Values \cup {Garbage} ELSE {nval[ref[t]]}

\* The caller's `int value = cache.get(key)`: the read through the reference.
\* The worker only prints the value, so nothing keeps it.
deref(t) ==
    /\ At(t, "deref")
    /\ \E v \in ReadValues(t) : v \in Int
    /\ Goto(t, "idle")
    /\ ref' = [ref EXCEPT ![t] = Nil]
    /\ stale' = [stale EXCEPT ![t] = FALSE]
    /\ expect' = [expect EXCEPT ![t] = NoVal]
    /\ UNCHANGED <<lruVars, mutex, op, key, val, node, ret, pre, used, lastPut, pure, putKeys>>
    /\ UNCHANGED <<statVars, want, besidesCache>>

\* ------------------------------------------------------ specification
\* ThreadSafeLRU(cap) with cap > 0: an empty cache, head linked to tail.
StartCache(caps) ==
    /\ capacity \in caps
    /\ size = 0 /\ hits = 0 /\ misses = 0
    /\ map = [k \in Keys |-> Nil]
    /\ heap = {}
    /\ nkey = [n \in Nodes |-> NoKey]
    /\ nval = [n \in Nodes |-> NoVal]
    /\ next = [n \in AllNodes |-> IF n = head THEN tail ELSE Nil]
    /\ prev = [n \in AllNodes |-> IF n = tail THEN head ELSE Nil]
    /\ mutex = NoThread
    /\ pc = [t \in Threads |-> "idle"]
    /\ op = [t \in Threads |-> "none"]
    /\ key = [t \in Threads |-> NoKey]
    /\ val = [t \in Threads |-> NoVal]
    /\ node = [t \in Threads |-> Nil]
    /\ ret = [t \in Threads |-> NoRet]
    /\ ref = [t \in Threads |-> Nil]
    /\ stale = [t \in Threads |-> FALSE]
    /\ expect = [t \in Threads |-> NoVal]
    /\ pre = NoPre
    /\ used = <<>>
    /\ lastPut = [k \in Keys |-> NoVal]
    /\ pure = TRUE
    /\ putKeys = <<>>
    /\ returned = 0 /\ thrown = 0
    /\ want = [t \in Threads |-> NoCall]

\* The counter program not running: no counter built, no worker started.
CounterAtRest ==
    /\ counter = 0 /\ counter_m = NoThread
    /\ cpc = [w \in Workers |-> "done"]
    /\ creg = [w \in Workers |-> 0]
    /\ cleft = [w \in Workers |-> 0]
    /\ incs = 0 /\ decs = 0 /\ cinit = 0
    /\ final = NoFinal

\* The bank program not running: no teller has anything to do.
BankAtRest ==
    /\ balance = [a \in Accounts |-> 0]
    /\ account_m = [a \in Accounts |-> NoThread]
    /\ bpc = [t \in Tellers |-> "idle"]
    /\ bcall = [t \in Tellers |-> NoBankCall]
    /\ bfirst = [t \in Tellers |-> NoAccount]
    /\ bleft = [t \in Tellers |-> 0]
    /\ bret = [t \in Tellers |-> "none"]
    /\ bpre = [t \in Tellers |-> NoBalances]
    /\ bnet = 0

\* The stack program not running: no stack thread has anything to do.
StackAtRest ==
    /\ stack = <<>> /\ stack_m = NoThread
    /\ spc = [t \in StackThreads |-> "done"]
    /\ sleft = [t \in StackThreads |-> 0]
    /\ sval = [t \in StackThreads |-> NoVal]
    /\ popped_values = [t \in Consumers |-> <<>>]
    /\ pushed = {}
    /\ sfinal = NoFinal

\* The cache program alone.
Start(caps) == StartCache(caps) /\ CounterAtRest /\ BankAtRest /\ StackAtRest

\* One step of thread t, its keys drawn from K.
Step(t, K) ==
    \/ \E k \in K : get_lock(t, k)
    \/ get_find(t)
    \/ get_miss(t)
    \/ get_hit(t)
    \/ moveToFront_removeNode(t)
    \/ moveToFront_addToFront(t)
    \/ \E k \in K : contains_lock(t, k)
    \/ contains(t)
    \/ \E k \in K, v \in Values : put_lock(t, k, v)
    \/ put_find(t)
    \/ put_assign(t)
    \/ put_new(t)
    \/ put_index(t)
    \/ put_addToFront(t)
    \/ put_size(t)
    \/ put_check(t)
    \/ evictLRU_find(t)
    \/ evictLRU_removeNode(t)
    \/ evictLRU_erase(t)
    \/ evictLRU_size(t)
    \/ \E k \in K : remove_lock(t, k)
    \/ remove_find(t)
    \/ remove_removeNode(t)
    \/ remove_erase(t)
    \/ remove_size(t)
    \/ getHitMissStats_lock(t)
    \/ getHitMissStats(t)
    \/ getHitRatio_lock(t)
    \/ getHitRatio(t)
    \/ resetStats_lock(t)
    \/ resetStats_hits(t)
    \/ resetStats_misses(t)
    \/ getSize_lock(t)
    \/ getSize(t)
    \/ getCapacity_lock(t)
    \/ getCapacity(t)
    \/ Unlock(t)
    \/ deref(t)

\* Concurrent callers of one small cache.
Init == Start(1..MaxCapacity)
Next == \E t \in Threads : Step(t, ConcKeys)
Spec == Init /\ [][Next]_vars

\* One caller at a time.
InitSeq == Start(1..MaxCapacity)
NextSeq == Step(Caller, SeqKeys)
SpecSeq == InitSeq /\ [][NextSeq]_vars

\* One caller of a cache one entry larger, which get, put and remove leave
\* with up to three entries beside the one they are about.
StepWide(t, K) ==
    \/ \E k \in K : get_lock(t, k)
    \/ get_find(t)
    \/ get_miss(t)
    \/ get_hit(t)
    \/ moveToFront_removeNode(t)
    \/ moveToFront_addToFront(t)
    \/ \E k \in K : put_lock(t, k, 1)
    \/ put_find(t)
    \/ put_assign(t)
    \/ put_new(t)
    \/ put_index(t)
    \/ put_addToFront(t)
    \/ put_size(t)
    \/ put_check(t)
    \/ evictLRU_find(t)
    \/ evictLRU_removeNode(t)
    \/ evictLRU_erase(t)
    \/ evictLRU_size(t)
    \/ \E k \in K : remove_lock(t, k)
    \/ remove_find(t)
    \/ remove_removeNode(t)
    \/ remove_erase(t)
    \/ remove_size(t)
    \/ Unlock(t)
    \/ deref(t)

InitWide == Start({MaxCapacity + 1})
NextWide == StepWide(Caller, Keys)
SpecWide == InitWide /\ [][NextWide]_vars

\* A caller that never calls resetStats.
StepNoReset(t, K) ==
    \/ \E k \in K : get_lock(t, k)
    \/ get_find(t)
    \/ get_miss(t)
    \/ get_hit(t)
    \/ moveToFront_removeNode(t)
    \/ moveToFront_addToFront(t)
    \/ \E k \in K, v \in Values : put_lock(t, k, v)
    \/ put_find(t)
    \/ put_assign(t)
    \/ put_new(t)
    \/ put_index(t)
    \/ put_addToFront(t)
    \/ put_size(t)
    \/ put_check(t)
    \/ evictLRU_find(t)
    \/ evictLRU_removeNode(t)
    \/ evictLRU_erase(t)
    \/ evictLRU_size(t)
    \/ \E k \in K : remove_lock(t, k)
    \/ remove_find(t)
    \/ remove_removeNode(t)
    \/ remove_erase(t)
    \/ remove_size(t)
    \/ getHitMissStats_lock(t)
    \/ getHitMissStats(t)
    \/ Unlock(t)
    \/ deref(t)
NextNoReset == StepNoReset(Caller, ConcKeys)
SpecNoReset == InitSeq /\ [][NextNoReset]_vars

\* Concurrent callers whose gets are counted, on a cache of capacity 1.
StepStats(t, K) ==
    \/ \E k \in K : get_lock_counted(t, k)
    \/ get_find(t)
    \/ get_miss(t)
    \/ get_hit(t)
    \/ moveToFront_removeNode(t)
    \/ moveToFront_addToFront(t)
    \/ \E k \in K, v \in Values : put_lock(t, k, v)
    \/ put_find(t)
    \/ put_assign(t)
    \/ put_new(t)
    \/ put_index(t)
    \/ put_addToFront(t)
    \/ put_size(t)
    \/ put_check(t)
    \/ evictLRU_find(t)
    \/ evictLRU_removeNode(t)
    \/ evictLRU_erase(t)
    \/ evictLRU_size(t)
    \/ \E k \in K : remove_lock(t, k)
    \/ remove_find(t)
    \/ remove_removeNode(t)
    \/ remove_erase(t)
    \/ remove_size(t)
    \/ getHitMissStats_lock(t)
    \/ getHitMissStats(t)
    \/ resetStats_lock(t)
    \/ resetStats_hits(t)
    \/ resetStats_misses(t)
    \/ Unlock_counted(t)
    \/ deref(t)
InitStats == Start({1})
NextStats == \E t \in Threads : StepStats(t, ConcKeys)
SpecStats == InitStats /\ [][NextStats]_vars

\* ------------------------------------------------- calls that may wait
\* Thread t calls method o: from here on it waits for the mutex.
Call(t, o, k, v) ==
    /\ pc[t] = "idle" /\ want[t] = NoCall
    /\ want' = [want EXCEPT ![t] = [op |-> o, key |-> k, val |-> v]]
    /\ UNCHANGED <<lruVars, mutex, thrVars, histVars, statVars, besidesCache>>

\* The first statement after the lock_guard of method o.
Entry(o) ==
    CASE o = "get" -> "get_find"
      [] o = "put" -> "put_find"
      [] o = "remove" -> "remove_find"

\* The waiting call of thread t gets the mutex.
Acquire(t) ==
    /\ want[t] # NoCall
    /\ Lock(t, want[t].op, want[t].key, want[t].val, Entry(want[t].op))
    /\ want' = [want EXCEPT ![t] = NoCall]

\* The steps of a call that holds the mutex, to its return, and the caller's
\* read of what get returned.
Run(t) ==
    \/ get_find(t)
    \/ get_miss(t)
    \/ get_hit(t)
    \/ moveToFront_removeNode(t)
    \/ moveToFront_addToFront(t)
    \/ put_find(t)
    \/ put_assign(t)
    \/ put_new(t)
    \/ put_index(t)
    \/ put_addToFront(t)
    \/ put_size(t)
    \/ put_check(t)
    \/ evictLRU_find(t)
    \/ evictLRU_removeNode(t)
    \/ evictLRU_erase(t)
    \/ evictLRU_size(t)
    \/ remove_find(t)
    \/ remove_removeNode(t)
    \/ remove_erase(t)
    \/ remove_size(t)
    \/ Unlock(t)
    \/ deref(t)

StepLive(t, K) ==
    \/ \E k \in K : Call(t, "get", k, NoVal)
    \/ \E k \in K : Call(t, "put", k, 1)
    \/ \E k \in K : Call(t, "remove", k, NoVal)
    \/ Acquire(t)
    \/ Run(t)

\* Callers contending for a cache of capacity 1.  A running thread goes on
\* running, and the mutex is acquired fairly: a call that finds the mutex
\* free again and again gets it.
InitLive == Start({1})
NextLive == \E t \in Threads : StepLive(t, ConcKeys)
SpecLive ==
    /\ InitLive /\ [][NextLive]_vars
    /\ \A t \in Threads : WF_vars(Run(t)) /\ SF_vars(Acquire(t))

\* -------------------------------------------------------- constructor
\* What an int argument becomes as the constructor's `unsigned cap`.
ToUnsigned(x) == x % (2 ^ CapacityBits)

\* The arguments callers construct the cache with.
CtorArgs == -1 .. MaxCapacity

\* Memory before `ThreadSafeLRU cache(arg)` runs: no member is set, head and
\* tail point at nothing.
InitCtor ==
    /\ capacity = 0 /\ size = 0 /\ hits = 0 /\ misses = 0
    /\ map = [k \in Keys |-> Nil]
    /\ heap = {}
    /\ nkey = [n \in Nodes |-> NoKey]
    /\ nval = [n \in Nodes |-> NoVal]
    /\ next = [n \in AllNodes |-> Nil]
    /\ prev = [n \in AllNodes |-> Nil]
    /\ mutex = NoThread
    /\ pc = [t \in Threads |-> IF t = Caller THEN "ctor_init" ELSE "idle"]
    /\ op = [t \in Threads |-> IF t = Caller THEN "ThreadSafeLRU" ELSE "none"]
    /\ key = [t \in Threads |-> NoKey]
    /\ \E x \in CtorArgs : val = [t \in Threads |-> IF t = Caller THEN x ELSE NoVal]
    /\ node = [t \in Threads |-> Nil]
    /\ ret = [t \in Threads |-> NoRet]
    /\ ref = [t \in Threads |-> Nil]
    /\ stale = [t \in Threads |-> FALSE]
    /\ expect = [t \in Threads |-> NoVal]
    /\ pre = NoPre
    /\ used = <<>>
    /\ lastPut = [k \in Keys |-> NoVal]
    /\ pure = TRUE
    /\ putKeys = <<>>
    /\ returned = 0 /\ thrown = 0
    /\ want = [t \in Threads |-> NoCall]
    /\ CounterAtRest /\ BankAtRest /\ StackAtRest

\* : capacity(cap), size(0), hits(0), misses(0)
ctor_init(t) ==
    /\ At(t, "ctor_init")
    /\ capacity' = ToUnsigned(val[t])
    /\ size' = 0 /\ hits' = 0 /\ misses' = 0
    /\ Goto(t, "ctor_check")
    /\ UNCHANGED <<map, heap, nkey, nval, next, prev, mutex,
                   op, key, val, node, ret, ref, stale, histVars>>
    /\ UNCHANGED <<statVars, want, besidesCache>>

RetInvalid == [kind |-> "invalid_argument", a |-> 0, b |-> 0]

\* if (cap == 0) throw std::invalid_argument(...)
ctor_check(t) ==
    /\ At(t, "ctor_check")
    /\ IF capacity = 0
       THEN Goto(t, "ctor_threw") /\ ret' = [ret EXCEPT ![t] = RetInvalid]
       ELSE Goto(t, "ctor_link") /\ UNCHANGED ret
    /\ UNCHANGED <<lruVars, mutex, op, key, val, node, ref, stale, histVars>>
    /\ UNCHANGED <<statVars, want, besidesCache>>

\* Mutant of ctor_link: tail->prev = head is left out.
ctor_link_forward(t) ==
    /\ At(t, "ctor_link")
    /\ next' = [next EXCEPT ![head] = tail]
    /\ Goto(t, "ctor_exit")
    /\ UNCHANGED <<capacity, size, hits, misses, map, heap, nkey, nval, prev, mutex,
                   op, key, val, node, ret, ref, stale, histVars>>
    /\ UNCHANGED <<statVars, want, besidesCache>>

\* head = make_shared; tail = make_shared; head->next = tail; tail->prev = head
ctor_link(t) ==
    /\ At(t, "ctor_link")
    /\ next' = [next EXCEPT ![head] = tail]
    /\ prev' = [prev EXCEPT ![tail] = head]
    /\ Goto(t, "ctor_exit")
    /\ UNCHANGED <<capacity, size, hits, misses, map, heap, nkey, nval, mutex,
                   op, key, val, node, ret, ref, stale, histVars>>
    /\ UNCHANGED <<statVars, want, besidesCache>>

\* The constructor returns: the cache exists and its methods can be called.
ctor_return(t) ==
    /\ At(t, "ctor_exit")
    /\ Goto(t, "idle")
    /\ op' = [op EXCEPT ![t] = "none"]
    /\ val' = [val EXCEPT ![t] = NoVal]
    /\ UNCHANGED <<lruVars, mutex, key, node, ret, ref, stale, histVars>>
    /\ UNCHANGED <<statVars, want, besidesCache>>

\* One caller constructs the cache and then uses it.
CtorStep(t, K) ==
    \/ ctor_init(t)
    \/ ctor_check(t)
    \/ ctor_link(t)
    \/ ctor_return(t)
    \/ Step(t, K)
NextCtor == CtorStep(Caller, ConcKeys)
SpecCtor == InitCtor /\ [][NextCtor]_vars

\* ================================================== ThreadSafeCounter
\* The values main builds the counter with.
CounterInits == {0, 1}

\* ThreadSafeCounter counter(init); the workers are launched, each about to
\* make the first of its MaxIterations calls.
InitCounter ==
    /\ StartCache({1}) /\ BankAtRest /\ StackAtRest
    /\ cinit \in CounterInits
    /\ counter = cinit
    /\ counter_m = NoThread
    /\ cpc = [w \in Workers |-> "call"]
    /\ creg = [w \in Workers |-> 0]
    /\ cleft = [w \in Workers |-> MaxIterations]
    /\ incs = 0 /\ decs = 0
    /\ final = NoFinal

\* Mutant of CounterCanLock: the method takes no lock.
CounterNoLock == TRUE

\* Whether lock_guard's constructor can take the counter's mutex.
CounterCanLock == counter_m = NoThread

\* std::lock_guard<std::mutex> lock(m)
Counter_lock(w) ==
    /\ cpc[w] = "call" /\ cleft[w] > 0
    /\ CounterCanLock
    /\ counter_m' = w
    /\ cpc' = [cpc EXCEPT ![w] = "load"]
    /\ UNCHANGED <<counter, creg, cleft, incs, decs, cinit, final, besidesCounter>>

\* counter++ and counter-- read the member ...
Counter_load(w) ==
    /\ cpc[w] = "load"
    /\ creg' = [creg EXCEPT ![w] = counter]
    /\ cpc' = [cpc EXCEPT ![w] = "store"]
    /\ UNCHANGED <<counter, counter_m, cleft, incs, decs, cinit, final, besidesCounter>>

\* ... and write it back, d more
Counter_store(w, d) ==
    /\ cpc[w] = "store"
    /\ counter' = creg[w] + d
    /\ cpc' = [cpc EXCEPT ![w] = "unlock"]
    /\ UNCHANGED <<counter_m, creg, cleft, incs, decs, cinit, final, besidesCounter>>

\* ~lock_guard and the return; the worker's loop goes to its next iteration
Counter_unlock(w) ==
    /\ cpc[w] = "unlock"
    /\ counter_m' = NoThread
    /\ cleft' = [cleft EXCEPT ![w] = cleft[w] - 1]
    /\ cpc' = [cpc EXCEPT ![w] = IF cleft[w] = 1 THEN "done" ELSE "call"]
    /\ UNCHANGED <<counter, creg, cinit, final, besidesCounter>>

increment_lock(w) == w \notin Decrementers /\ Counter_lock(w)
increment_load(w) == w \notin Decrementers /\ Counter_load(w)
increment_store(w) == w \notin Decrementers /\ Counter_store(w, 1)
increment_unlock(w) ==
    w \notin Decrementers /\ Counter_unlock(w) /\ incs' = incs + 1 /\ UNCHANGED decs

decrement_lock(w) == w \in Decrementers /\ Counter_lock(w)
decrement_load(w) == w \in Decrementers /\ Counter_load(w)
decrement_store(w) == w \in Decrementers /\ Counter_store(w, -1)
decrement_unlock(w) ==
    w \in Decrementers /\ Counter_unlock(w) /\ decs' = decs + 1 /\ UNCHANGED incs

\* main after joining every worker: counter.getValue()
getValue ==
    /\ \A w \in Workers : cpc[w] = "done"
    /\ ~final.set
    /\ CounterCanLock
    /\ final' = [set |-> TRUE, value |-> counter]
    /\ UNCHANGED <<counter, counter_m, cpc, creg, cleft, incs, decs, cinit, besidesCounter>>

NextCounter ==
    \/ \E w \in Workers :
          \/ increment_lock(w)
          \/ increment_load(w)
          \/ increment_store(w)
          \/ increment_unlock(w)
          \/ decrement_lock(w)
          \/ decrement_load(w)
          \/ decrement_store(w)
          \/ decrement_unlock(w)
    \/ getValue
SpecCounter == InitCounter /\ [][NextCounter]_vars

\* ====================================================== Account, Bank
\* The amounts the tellers use: 0 is not a valid amount.
Amounts == 0 .. MaxAmount

\* The accounts as main opens them, each with a balance of MaxAmount; every
\* teller has MaxOperations operations to run.
InitBank ==
    /\ StartCache({1}) /\ CounterAtRest /\ StackAtRest
    /\ balance = [a \in Accounts |-> MaxAmount]
    /\ account_m = [a \in Accounts |-> NoThread]
    /\ bpc = [t \in Tellers |-> "idle"]
    /\ bcall = [t \in Tellers |-> NoBankCall]
    /\ bfirst = [t \in Tellers |-> NoAccount]
    /\ bleft = [t \in Tellers |-> MaxOperations]
    /\ bret = [t \in Tellers |-> "none"]
    /\ bpre = [t \in Tellers |-> NoBalances]
    /\ bnet = 0

BankGoto(t, l) == bpc' = [bpc EXCEPT ![t] = l]

\* What call c, ended with result r, has paid in from outside the bank.
Completed(c, r) ==
    CASE r = "ok" /\ c.op = "deposit" -> c.amount
      [] r = "ok" /\ c.op = "withdraw" -> 0 - c.amount
      [] OTHER -> 0

\* The call ends with result r: back in threadFunc's loop.
BankReturn(t, r) ==
    /\ BankGoto(t, "idle")
    /\ bret' = [bret EXCEPT ![t] = r]
    /\ bcall' = [bcall EXCEPT ![t] = NoBankCall]
    /\ bleft' = [bleft EXCEPT ![t] = bleft[t] - 1]
    /\ bpre' = [bpre EXCEPT ![t] = NoBalances]
    /\ bnet' = bnet + Completed(bcall[t], r)

\* Teller t calls o; `if (amount <= 0) throw invalid_amount()` comes before
\* any lock.
BankCall(t, o, f, g, x, l) ==
    /\ bpc[t] = "idle" /\ bleft[t] > 0
    /\ IF o # "getBalance" /\ x <= 0
       THEN BankReturn(t, "invalid_amount") /\ UNCHANGED bfirst
       ELSE /\ BankGoto(t, l)
            /\ bcall' = [bcall EXCEPT ![t] = [op |-> o, from |-> f, to |-> g, amount |-> x]]
            /\ bfirst' = [bfirst EXCEPT ![t] = f]
            /\ UNCHANGED <<bleft, bret, bpre, bnet>>
    /\ UNCHANGED <<balance, account_m, besidesBank>>

\* std::lock_guard<std::mutex> lock(m) of account a: waits until m is free.
AccountLock(t, a, from, l) ==
    /\ bpc[t] = from
    /\ account_m[a] = NoThread
    /\ account_m' = [account_m EXCEPT ![a] = t]
    /\ bpre' = [bpre EXCEPT ![t] = balance]
    /\ BankGoto(t, l)
    /\ UNCHANGED <<balance, bcall, bfirst, bleft, bret, bnet, besidesBank>>

\* The locks teller t holds are released and the call ends with result r.
AccountUnlock(t, from, r) ==
    /\ bpc[t] = from
    /\ account_m' = [a \in Accounts |-> IF account_m[a] = t THEN NoThread ELSE account_m[a]]
    /\ BankReturn(t, r)
    /\ UNCHANGED <<balance, bfirst, besidesBank>>

\* ------------------------------------------------------------ deposit
deposit_call(t, a, x) == BankCall(t, "deposit", a, a, x, "deposit_lock")
deposit_lock(t) == AccountLock(t, bcall[t].from, "deposit_lock", "deposit_add")

\* balance += amount
deposit_add(t) ==
    /\ bpc[t] = "deposit_add"
    /\ balance' = [balance EXCEPT ![bcall[t].from] = @ + bcall[t].amount]
    /\ BankGoto(t, "deposit_unlock")
    /\ UNCHANGED <<account_m, bcall, bfirst, bleft, bret, bpre, bnet, besidesBank>>

deposit_unlock(t) == AccountUnlock(t, "deposit_unlock", "ok")

\* ----------------------------------------------------------- withdraw
withdraw_call(t, a, x) == BankCall(t, "withdraw", a, a, x, "withdraw_lock")
withdraw_lock(t) == AccountLock(t, bcall[t].from, "withdraw_lock", "withdraw_check")

\* if (amount > balance) throw insufficient_funds(); balance -= amount
withdraw_check(t) ==
    /\ bpc[t] = "withdraw_check"
    /\ IF bcall[t].amount > balance[bcall[t].from]
       THEN BankGoto(t, "withdraw_throw") /\ UNCHANGED balance
       ELSE /\ balance' = [balance EXCEPT ![bcall[t].from] = @ - bcall[t].amount]
            /\ BankGoto(t, "withdraw_unlock")
    /\ UNCHANGED <<account_m, bcall, bfirst, bleft, bret, bpre, bnet, besidesBank>>

withdraw_throw(t) == AccountUnlock(t, "withdraw_throw", "insufficient_funds")
withdraw_unlock(t) == AccountUnlock(t, "withdraw_unlock", "ok")

\* --------------------------------------------------------- getBalance
getBalance_call(t, a) == BankCall(t, "getBalance", a, a, 0, "getBalance_lock")
getBalance_lock(t) == AccountLock(t, bcall[t].from, "getBalance_lock", "getBalance_unlock")
getBalance_unlock(t) == AccountUnlock(t, "getBalance_unlock", "ok")

\* ----------------------------------------------------- Bank::transfer
\* threadFunc draws two different accounts.
transfer_call(t, f, g, x) == f # g /\ BankCall(t, "transfer", f, g, x, "scoped_lock")

\* The account of the call other than a.
OtherAccount(t, a) == IF a = bcall[t].from THEN bcall[t].to ELSE bcall[t].from

\* std::scoped_lock lock(from.m, to.m), which is std::lock: lock one mutex,
\* waiting for it ...
scoped_lock_first(t) == AccountLock(t, bfirst[t], "scoped_lock", "scoped_try")

\* ... try_lock the other: got it, both are held ...
scoped_lock_try(t) ==
    /\ bpc[t] = "scoped_try"
    /\ account_m[OtherAccount(t, bfirst[t])] = NoThread
    /\ account_m' = [account_m EXCEPT ![OtherAccount(t, bfirst[t])] = t]
    /\ bpre' = [bpre EXCEPT ![t] = balance]
    /\ BankGoto(t, "transfer_check")
    /\ UNCHANGED <<balance, bcall, bfirst, bleft, bret, bnet, besidesBank>>

\* std::lock replaced by lock(from.m); lock(to.m): with the other mutex taken
\* the teller keeps the one it holds and waits.
scoped_lock_waits(t) ==
    /\ bpc[t] = "scoped_try"
    /\ account_m[OtherAccount(t, bfirst[t])] # NoThread
    /\ UNCHANGED vars

\* ... or it is taken: the try fails ...
scoped_lock_fail(t) ==
    /\ bpc[t] = "scoped_try"
    /\ account_m[OtherAccount(t, bfirst[t])] # NoThread
    /\ BankGoto(t, "scoped_backoff")
    /\ UNCHANGED <<balance, account_m, bcall, bfirst, bleft, bret, bpre, bnet, besidesBank>>

\* ... the mutex held is unlocked, and std::lock starts again with either
\* mutex: which one is the library's choice.
scoped_lock_backoff(t) ==
    /\ bpc[t] = "scoped_backoff"
    /\ account_m' = [account_m EXCEPT ![bfirst[t]] = NoThread]
    /\ \E a \in {bcall[t].from, bcall[t].to} : bfirst' = [bfirst EXCEPT ![t] = a]
    /\ BankGoto(t, "scoped_lock")
    /\ UNCHANGED <<balance, bcall, bleft, bret, bpre, bnet, besidesBank>>

\* Mutant of transfer_check: the balance of from is not checked.
transfer_unchecked(t) ==
    /\ bpc[t] = "transfer_check"
    /\ balance' = [balance EXCEPT ![bcall[t].from] = @ - bcall[t].amount]
    /\ BankGoto(t, "transfer_add")
    /\ UNCHANGED <<account_m, bcall, bfirst, bleft, bret, bpre, bnet, besidesBank>>

\* if (from.balance < amount) throw insufficient_funds(); from.balance -= amount
transfer_check(t) ==
    /\ bpc[t] = "transfer_check"
    /\ IF balance[bcall[t].from] < bcall[t].amount
       THEN BankGoto(t, "transfer_throw") /\ UNCHANGED balance
       ELSE /\ balance' = [balance EXCEPT ![bcall[t].from] = @ - bcall[t].amount]
            /\ BankGoto(t, "transfer_add")
    /\ UNCHANGED <<account_m, bcall, bfirst, bleft, bret, bpre, bnet, besidesBank>>

\* to.balance += amount
transfer_add(t) ==
    /\ bpc[t] = "transfer_add"
    /\ balance' = [balance EXCEPT ![bcall[t].to] = @ + bcall[t].amount]
    /\ BankGoto(t, "transfer_unlock")
    /\ UNCHANGED <<account_m, bcall, bfirst, bleft, bret, bpre, bnet, besidesBank>>

transfer_throw(t) == AccountUnlock(t, "transfer_throw", "insufficient_funds")
transfer_unlock(t) == AccountUnlock(t, "transfer_unlock", "ok")

\* Teller t begins one of threadFunc's operations.
BankBegin(t) ==
    \/ \E a \in Accounts, x \in Amounts : deposit_call(t, a, x)
    \/ \E a \in Accounts, x \in Amounts : withdraw_call(t, a, x)
    \/ \E a \in Accounts : getBalance_call(t, a)
    \/ \E f, g \in Accounts, x \in Amounts : transfer_call(t, f, g, x)

\* Teller t gets a mutex it wants.
BankAcquire(t) ==
    \/ deposit_lock(t)
    \/ withdraw_lock(t)
    \/ getBalance_lock(t)
    \/ scoped_lock_first(t)
    \/ scoped_lock_try(t)

\* The other steps of teller t inside a call.
BankRun(t) ==
    \/ deposit_add(t)
    \/ deposit_unlock(t)
    \/ withdraw_check(t)
    \/ withdraw_throw(t)
    \/ withdraw_unlock(t)
    \/ getBalance_unlock(t)
    \/ scoped_lock_fail(t)
    \/ scoped_lock_backoff(t)
    \/ transfer_check(t)
    \/ transfer_add(t)
    \/ transfer_throw(t)
    \/ transfer_unlock(t)

\* Teller t is in std::lock and no other teller holds a mutex of its transfer.
ScopedLockCanLock(t) ==
    /\ bpc[t] \in {"scoped_lock", "scoped_try", "scoped_backoff"}
    /\ account_m[bcall[t].from] \in {NoThread, t}
    /\ account_m[bcall[t].to] \in {NoThread, t}

\* Teller t has come out of std::lock with both mutexes.
ScopedLockLocked(t) == bpc[t] = "transfer_check"

\* The tellers run concurrently.  Fair scheduling: a teller inside a call goes
\* on running, a teller that finds the mutex it wants free again and again
\* gets it, and a teller in std::lock that again and again finds the mutexes
\* of its transfer held by nobody else comes out of std::lock with both.
NextBank == \E t \in Tellers : BankBegin(t) \/ BankAcquire(t) \/ BankRun(t)
FairBank ==
    \A t \in Tellers :
        /\ WF_vars(BankRun(t))
        /\ SF_vars(BankAcquire(t))
        /\ ([]<>ScopedLockCanLock(t) => []<>ScopedLockLocked(t))
SpecBank == InitBank /\ [][NextBank]_vars /\ FairBank

\* ==================================================== ThreadSafeStack
\* The producer lambda's t, and the value of its i-th push: t * 10000 + i in
\* the code, where 10000 exceeds the pushes of a thread.
ProducerNo == [q \in Producers |-> IF q = "q1" THEN 0 ELSE 1]
PushValue(q, i) == ProducerNo[q] * (MaxPushes + 1) + i

\* shared_stack is empty; each producer has MaxPushes pushes to make and each
\* consumer MaxPops pops that return a value.
InitStack ==
    /\ StartCache({1}) /\ CounterAtRest /\ BankAtRest
    /\ stack = <<>> /\ stack_m = NoThread
    /\ spc = [t \in StackThreads |-> "idle"]
    /\ sleft = [t \in StackThreads |-> IF t \in Producers THEN MaxPushes ELSE MaxPops]
    /\ sval = [t \in StackThreads |-> NoVal]
    /\ popped_values = [t \in Consumers |-> <<>>]
    /\ pushed = {}
    /\ sfinal = NoFinal

\* std::lock_guard<std::mutex> lock(m) at the top of push and of pop.
Stack_lock(t, l) ==
    /\ spc[t] = "idle"
    /\ stack_m = NoThread
    /\ stack_m' = t
    /\ spc' = [spc EXCEPT ![t] = l]

\* The lock_guard's destructor; the thread's loop goes on, or is over when
\* nothing is left to do.
Stack_unlock(t, left) ==
    /\ stack_m' = NoThread
    /\ sleft' = [sleft EXCEPT ![t] = left]
    /\ spc' = [spc EXCEPT ![t] = IF left = 0 THEN "done" ELSE "idle"]

\* shared_stack.push(t * 10000 + i)
push_lock(q) ==
    /\ Stack_lock(q, "push")
    /\ sval' = [sval EXCEPT ![q] = PushValue(q, MaxPushes - sleft[q])]
    /\ UNCHANGED <<stack, sleft, popped_values, pushed, sfinal, besidesStack>>

\* stack.push(std::move(value)): the top is the end of the sequence.
push(q) ==
    /\ spc[q] = "push"
    /\ stack' = Append(stack, sval[q])
    /\ pushed' = pushed \cup {sval[q]}
    /\ spc' = [spc EXCEPT ![q] = "push_unlock"]
    /\ UNCHANGED <<stack_m, sleft, sval, popped_values, sfinal, besidesStack>>

push_unlock(q) ==
    /\ spc[q] = "push_unlock"
    /\ Stack_unlock(q, sleft[q] - 1)
    /\ sval' = [sval EXCEPT ![q] = NoVal]
    /\ UNCHANGED <<stack, popped_values, pushed, sfinal, besidesStack>>

\* auto val = shared_stack.pop()
pop_lock(r) ==
    /\ Stack_lock(r, "pop_check")
    /\ UNCHANGED <<stack, sleft, sval, popped_values, pushed, sfinal, besidesStack>>

\* if (stack.empty()) throw empty_stack(); res = make_shared<T>(stack.top())
pop_check(r) ==
    /\ spc[r] = "pop_check"
    /\ IF stack = <<>>
       THEN spc' = [spc EXCEPT ![r] = "pop_throw"] /\ UNCHANGED sval
       ELSE /\ sval' = [sval EXCEPT ![r] = stack[Len(stack)]]
            /\ spc' = [spc EXCEPT ![r] = "pop"]
    /\ UNCHANGED <<stack, stack_m, sleft, popped_values, pushed, sfinal, besidesStack>>

\* Mutant of pop: the top is copied and left on the stack.
pop_top_kept(r) ==
    /\ spc[r] = "pop"
    /\ spc' = [spc EXCEPT ![r] = "pop_unlock"]
    /\ UNCHANGED <<stack, stack_m, sleft, sval, popped_values, pushed, sfinal, besidesStack>>

\* stack.pop()
pop(r) ==
    /\ spc[r] = "pop"
    /\ stack' = SubSeq(stack, 1, Len(stack) - 1)
    /\ spc' = [spc EXCEPT ![r] = "pop_unlock"]
    /\ UNCHANGED <<stack_m, sleft, sval, popped_values, pushed, sfinal, besidesStack>>

\* return res; popped_values[t].push_back(*val)
pop_unlock(r) ==
    /\ spc[r] = "pop_unlock"
    /\ Stack_unlock(r, sleft[r] - 1)
    /\ popped_values' = [popped_values EXCEPT ![r] = Append(@, sval[r])]
    /\ sval' = [sval EXCEPT ![r] = NoVal]
    /\ UNCHANGED <<stack, pushed, sfinal, besidesStack>>

\* empty_stack leaves pop through the lock_guard; catch: yield(); i--
pop_throw(r) ==
    /\ spc[r] = "pop_throw"
    /\ Stack_unlock(r, sleft[r])
    /\ UNCHANGED <<stack, sval, popped_values, pushed, sfinal, besidesStack>>

\* size() called once every thread is joined: lock, stack.size(), unlock, with
\* no other thread left to interleave.
size_after_join ==
    /\ \A t \in StackThreads : spc[t] = "done"
    /\ ~sfinal.set
    /\ sfinal' = [set |-> TRUE, value |-> Len(stack)]
    /\ UNCHANGED <<stack, stack_m, spc, sleft, sval, popped_values, pushed, besidesStack>>

\* A stack thread gets the mutex.
StackAcquire(t) ==
    \/ t \in Producers /\ push_lock(t)
    \/ t \in Consumers /\ pop_lock(t)

\* The other steps of a stack thread.
StackRun(t) ==
    \/ push(t)
    \/ push_unlock(t)
    \/ pop_check(t)
    \/ pop(t)
    \/ pop_unlock(t)
    \/ pop_throw(t)

\* Producers and consumers run concurrently, then main.  A running thread goes
\* on running, and a thread that finds the mutex free again and again gets it.
NextStack == (\E t \in StackThreads : StackAcquire(t) \/ StackRun(t)) \/ size_after_join
FairStack ==
    /\ \A t \in StackThreads : WF_vars(StackRun(t)) /\ SF_vars(StackAcquire(t))
    /\ WF_vars(size_after_join)
SpecStack == InitStack /\ [][NextStack]_vars /\ FairStack

\* ------------------------------------------------------------ claims
\* What the claims speak of: the calling thread at the end of its method,
\* still holding the mutex, and the cache as the call found it (pre).
\* The count that follows x on an unsigned counter.
OneMore(x) == (x + 1) % CounterMod

AtExit(t, o) == pc[t] = "exit" /\ op[t] = o
Inside(t) == pc[t] \notin {"idle", "deref"}
PreKeys == {k \in Keys : pre.vals[k] # NoVal}
CurVals == [k \in Keys |-> IF map[k] = Nil THEN NoVal ELSE nval[map[k]]]
Last(s) == s[Len(s)]

\* Where the walk of next links from n ends: tail, null, or a node when the
\* fuel runs out (a cycle).
RECURSIVE WalkEnd(_, _)
WalkEnd(n, fuel) ==
    IF n \notin Nodes \/ fuel = 0 THEN n ELSE WalkEnd(next[n], fuel - 1)

ListEnd == WalkEnd(next[head], MaxNodes + 1)

\* C1: whenever the mutex is not held 0 <= size <= capacity, and no getSize
\* call returns a size above capacity (capacity + 1 exists only inside put).
C1_SizeWithinCapacity ==
    /\ mutex = NoThread => (0 <= size /\ size <= capacity)
    /\ \A t \in Threads :
          ret[t].kind = "size" => (0 <= ret[t].a /\ ret[t].a <= capacity)

\* A put holds the mutex with capacity + 1 entries while the other caller is
\* outside the cache.
C1_Witness ==
    \E t, u \in Threads :
        /\ t # u /\ mutex = t /\ op[t] = "put" /\ pc[t] = "evict_find"
        /\ size = capacity + 1
        /\ pc[u] = "idle"

\* C2: a put of an absent key into a full cache removes exactly the present
\* key whose last successful get or put is oldest, which is the key of the
\* node before tail, and keeps every other key.
C2_EvictsLeastRecentlyUsed ==
    \A t \in Threads :
        (AtExit(t, "put") /\ key[t] \notin PreKeys /\ pre.size = capacity) =>
            /\ Len(pre.used) = capacity
            /\ Len(pre.order) = capacity
            /\ Last(pre.used) = Last(pre.order)
            /\ MapKeys = (PreKeys \cup {key[t]}) \ {Last(pre.used)}
            /\ Range(ListKeys) = MapKeys
            /\ size = capacity

\* Capacity 2: put(a), put(b), get(a), put(c) has evicted b and kept a, c.
C2_Witness ==
    \E t \in Threads :
        /\ AtExit(t, "put") /\ key[t] = "c" /\ capacity = 2
        /\ pre.order = <<"a", "b">> /\ pre.hits = 1
        /\ MapKeys = {"a", "c"}

\* C4: whenever the mutex is not held, the walk from head ends at tail and
\* meets exactly the keys of the map, each once; each map entry points at the
\* node of its own key; size is the number of map entries and of list nodes.
C4_IndexAndListAgree ==
    mutex = NoThread =>
        /\ ListEnd = tail
        /\ Range(ListKeys) = MapKeys
        /\ Len(ListKeys) = Cardinality(MapKeys)
        /\ \A k \in MapKeys : nkey[map[k]] = k /\ map[k] \in Range(ListNodes)
        /\ size = Cardinality(MapKeys)
        /\ size = Len(ListNodes)

\* The mutex is free and the cache is full, a in the node allocated for an
\* overflowing put and c in the first node, reused: entries were evicted or
\* removed on the way.
C4_Witness ==
    /\ mutex = NoThread /\ size = 2
    /\ map["a"] = 3 /\ map["c"] = 1

\* The calls one after another: what method o with arguments k, v makes of
\* the cache s and what it returns (val: the value a get returns).
SeqOrder(s, o, k) ==
    CASE o = "get" /\ s.vals[k] # NoVal -> Touch(s.order, k)
      [] o = "put" ->
            LET o1 == Touch(s.order, k)
            IN IF Len(o1) > capacity THEN SubSeq(o1, 1, Len(o1) - 1) ELSE o1
      [] o = "remove" -> Without(s.order, k)
      [] OTHER -> s.order

SeqVals(s, o, k, v) ==
    LET o2 == SeqOrder(s, o, k)
        v1 == IF o = "put" THEN [s.vals EXCEPT ![k] = v] ELSE s.vals
    IN [x \in Keys |-> IF x \in Range(o2) THEN v1[x] ELSE NoVal]

SeqHits(s, o, k) ==
    CASE o = "get" /\ s.vals[k] # NoVal -> OneMore(s.hits)
      [] o = "resetStats" -> 0
      [] OTHER -> s.hits

SeqMisses(s, o, k) ==
    CASE o = "get" /\ s.vals[k] = NoVal -> OneMore(s.misses)
      [] o = "resetStats" -> 0
      [] OTHER -> s.misses

SeqRet(s, o, k) ==
    CASE o = "get" -> IF s.vals[k] # NoVal THEN RetNum("value", s.vals[k]) ELSE RetThrow
      [] o = "contains" -> RetBool(s.vals[k] # NoVal)
      [] o = "remove" -> RetBool(s.vals[k] # NoVal)
      [] o = "getSize" -> RetNum("size", Len(s.order))
      [] o = "getCapacity" -> RetNum("capacity", capacity)
      [] o = "getHitMissStats" -> RetPair("stats", s.hits, s.misses)
      [] o = "getHitRatio" ->
            LET total == (s.hits + s.misses) % CounterMod
            IN IF total > 0 THEN RetPair("ratio", s.hits, total) ELSE RetPair("ratio", 0, 1)
      [] OTHER -> RetVoid

\* Every call, when it ends, has left the cache and computed the result that
\* the same call makes of the cache it found, run alone; and only the holder
\* of the mutex is inside the cache.
SerializedUnderMutex ==
    /\ \A t \in Threads : Inside(t) => mutex = t
    /\ \A t \in Threads :
          pc[t] = "exit" =>
              /\ ListKeys = SeqOrder(pre, op[t], key[t])
              /\ CurVals = SeqVals(pre, op[t], key[t], val[t])
              /\ size = Len(SeqOrder(pre, op[t], key[t]))
              /\ hits = SeqHits(pre, op[t], key[t])
              /\ misses = SeqMisses(pre, op[t], key[t])
              /\ IF ret[t].kind = "ref"
                 THEN RetNum("value", nval[ret[t].a]) = SeqRet(pre, op[t], key[t])
                 ELSE ret[t] = SeqRet(pre, op[t], key[t])

\* What the caller of a successful get reads is a value that was stored for
\* the key, never the content of a destroyed node.
ReadsAStoredValue ==
    \A t \in Threads : pc[t] = "deref" => ReadValues(t) \subseteq Values

\* C3: the callers' results and the cache are those of the calls run one at a
\* time, in the order in which they held the mutex; no call sees part of
\* another call's effect, and every result is one a sequential run can give.
C3_Serializable == SerializedUnderMutex /\ ReadsAStoredValue

\* C5: a get of a present key returns the value last put for it, leaves the
\* key first in the list, counts one hit and changes nothing else, and while
\* it does so no other caller is inside the cache.
C5_GetHit ==
    \A t \in Threads :
        /\ (AtExit(t, "get") /\ key[t] \in PreKeys) =>
              /\ ret[t].kind = "ref"
              /\ nkey[ret[t].a] = key[t]
              /\ nval[ret[t].a] = lastPut[key[t]]
              /\ expect[t] = lastPut[key[t]]
              /\ next[head] = ret[t].a
              /\ ListKeys = Touch(pre.order, key[t])
              /\ hits = OneMore(pre.hits)
              /\ misses = pre.misses
              /\ size = pre.size
              /\ MapKeys = PreKeys
              /\ CurVals = pre.vals
        /\ (op[t] = "get" /\ Inside(t)) =>
              /\ mutex = t
              /\ \A u \in Threads \ {t} : ~Inside(u)
        /\ (op[t] = "get" /\ pc[t] = "get_hit") => hits = pre.hits

\* A get of a, the older of two entries, has moved it in front of b.
C5_Witness ==
    \E t \in Threads :
        /\ AtExit(t, "get") /\ key[t] = "a" /\ ret[t].kind = "ref"
        /\ pre.order = <<"b", "a">> /\ ListKeys = <<"a", "b">>

\* C6: a get of an absent key throws out_of_range to its caller, counts one
\* miss and no hit, and leaves keys, values, order and size as they were; a
\* get throws in no other case, and no other thread is in a call meanwhile.
C6_GetMiss ==
    \A t \in Threads :
        AtExit(t, "get") =>
            /\ ret[t] = RetThrow <=> key[t] \notin PreKeys
            /\ ret[t] = RetThrow =>
                  /\ misses = OneMore(pre.misses)
                  /\ hits = pre.hits
                  /\ ListKeys = pre.order
                  /\ CurVals = pre.vals
                  /\ MapKeys = PreKeys
                  /\ size = pre.size
                  /\ \A u \in Threads \ {t} : ret[u] = NoRet /\ ~Inside(u)

\* A get of an absent key on a cache that holds an entry has thrown.
C6_Witness ==
    \E t \in Threads :
        AtExit(t, "get") /\ ret[t] = RetThrow /\ pre.size > 0 /\ pre.misses > 0

\* C7: contains returns whether the key is in the cache, and no step of a
\* contains call changes the index, the list, the nodes, size, hits, misses
\* or the recency history (so what a later put evicts is unchanged).
C7_ContainsChangesNothing ==
    [][\A t \in Threads :
          /\ (op[t] = "contains" \/ op'[t] = "contains") =>
                /\ lruVars' = lruVars
                /\ used' = used
                /\ lastPut' = lastPut
          /\ (pc[t] = "contains_find" /\ pc'[t] = "exit") =>
                ret'[t] = RetBool(key[t] \in Range(pre.order))]_vars

\* contains has found the least recently used of two entries and left it
\* least recently used, with the counters as they were.
C7_Witness ==
    \E t \in Threads :
        /\ AtExit(t, "contains") /\ ret[t] = RetBool(TRUE)
        /\ pre.order = <<"b", "a">> /\ key[t] = "a"
        /\ ListKeys = <<"b", "a">> /\ hits = pre.hits /\ misses = pre.misses

\* C8: a put on a present key replaces its value, moves it to the front,
\* keeps size and the key set and evicts nothing, also in a full cache; a get
\* of a present key returns the value last put for it.
C8_PutUpdatesInPlace ==
    \A t \in Threads :
        /\ (AtExit(t, "put") /\ key[t] \in PreKeys) =>
              /\ CurVals = [pre.vals EXCEPT ![key[t]] = val[t]]
              /\ ListKeys = Touch(pre.order, key[t])
              /\ size = pre.size
              /\ MapKeys = PreKeys
        /\ (AtExit(t, "get") /\ ret[t].kind = "ref") =>
              nval[ret[t].a] = lastPut[key[t]]

\* A put of another value on the older entry of a full cache of 2.
C8_Witness ==
    \E t \in Threads :
        /\ AtExit(t, "put") /\ key[t] = "a" /\ capacity = 2
        /\ pre.order = <<"b", "a">> /\ pre.vals["a"] = 1 /\ val[t] = 2
        /\ ListKeys = <<"a", "b">> /\ CurVals["a"] = 2

\* C9: remove of a present key returns true, takes the key out of the map
\* and the list and lowers size by 1; remove of an absent key returns false
\* and changes nothing; neither changes hits or misses; a get of a key that
\* was removed and not put since throws.
C9_Remove ==
    \A t \in Threads :
        /\ AtExit(t, "remove") =>
              /\ ret[t] = RetBool(key[t] \in PreKeys)
              /\ MapKeys = PreKeys \ {key[t]}
              /\ ListKeys = Without(pre.order, key[t])
              /\ CurVals = [pre.vals EXCEPT ![key[t]] = NoVal]
              /\ size = IF key[t] \in PreKeys THEN pre.size - 1 ELSE pre.size
              /\ hits = pre.hits /\ misses = pre.misses
        /\ (AtExit(t, "get") /\ key[t] \notin Range(pre.used)) => ret[t] = RetThrow

\* The most recently used of two entries has been removed.
C9_Witness ==
    \E t \in Threads :
        /\ AtExit(t, "remove") /\ ret[t] = RetBool(TRUE)
        /\ pre.order = <<"b", "a">> /\ key[t] = "b" /\ ListKeys = <<"a">>

\* C10: once capacity + 1 distinct keys have been put into the new cache and
\* nothing else was called, exactly the capacity last put keys are present.
C10_OverflowKeepsNewest ==
    (pure /\ Len(putKeys) = capacity + 1 /\ mutex = NoThread) =>
        /\ MapKeys = Range(SubSeq(putKeys, 2, capacity + 1))
        /\ putKeys[1] \notin MapKeys
        /\ Cardinality(MapKeys) = capacity
        /\ size = capacity
        /\ \A i \in 1..capacity : ListKeys[i] = putKeys[capacity + 2 - i]

\* b, c, a have been put into a new cache of capacity 2.
C10_Witness ==
    /\ pure /\ putKeys = <<"b", "c", "a">> /\ capacity = 2 /\ mutex = NoThread

\* C11: when a put returns, its key is in the map on a node of the list that
\* carries the key and the value put, at the front, so that a contains and a
\* get that follow find it; in a cache of capacity 1 a put of a new key leaves
\* that key alone.
C11_PutKeepsItsKey ==
    \A t \in Threads :
        AtExit(t, "put") =>
            /\ map[key[t]] \in Nodes
            /\ nkey[map[key[t]]] = key[t]
            /\ nval[map[key[t]]] = val[t]
            /\ ListNodes # <<>> /\ ListNodes[1] = map[key[t]]
            /\ (capacity = 1 => MapKeys = {key[t]} /\ ListKeys = <<key[t]>>)

\* put(b, 2) on a cache of capacity 1 that held a has ended.
C11_Witness ==
    \E t \in Threads :
        /\ AtExit(t, "put") /\ capacity = 1 /\ key[t] = "b" /\ val[t] = 2
        /\ pre.order = <<"a">> /\ MapKeys = {"b"} /\ CurVals["b"] = 2

\* The constructor has returned: the object exists.
Constructed(t) == pc[t] = "ctor_exit" /\ op[t] = "ThreadSafeLRU"

\* The part of C12 the constructor keeps: an argument of 0 throws, and a
\* cache that was constructed is empty, its counters 0, head linked to tail.
CtorRejectsZeroAndBuildsEmpty ==
    \A t \in Threads :
        /\ (pc[t] = "ctor_threw" => val[t] <= 0 /\ ret[t] = RetInvalid)
        /\ (Constructed(t) /\ val[t] > 0 =>
              /\ capacity = val[t]
              /\ size = 0 /\ hits = 0 /\ misses = 0
              /\ MapKeys = {}
              /\ next[head] = tail /\ prev[tail] = head)
        /\ (Constructed(t) => val[t] # 0)

\* C12: the constructor yields a cache only for an argument > 0 (an argument
\* <= 0 throws and leaves no object), and the cache it yields is empty with
\* the capacity asked for.
C12_ConstructorRejectsNonPositive ==
    /\ CtorRejectsZeroAndBuildsEmpty
    /\ \A t \in Threads : Constructed(t) => val[t] > 0

\* What holds of the counters instead: a step leaves each as it is or moves
\* it to the next unsigned value, which after the largest one is 0.
CountersOnlyAdvance ==
    [][/\ hits' \in {hits, OneMore(hits)}
       /\ misses' \in {misses, OneMore(misses)}]_vars

\* C13: while resetStats is never called, no step lowers hits or misses, so
\* that a getHitMissStats never reports less than an earlier one did.
C13_CountersNeverDecrease ==
    [][hits' >= hits /\ misses' >= misses]_vars

\* C14: resetStats runs under the mutex from its first to its last statement;
\* when it ends hits and misses are both 0; none of its steps changes the
\* keys, the values, the order, size or capacity; and a getHitMissStats
\* returns the two counters as they stood when it took the mutex, with no
\* other call in progress, so never between the two assignments.
C14_ResetStatsAtomic ==
    [][\A t \in Threads :
          /\ pc'[t] \in {"reset_hits", "reset_misses"} => mutex' = t
          /\ op[t] = "resetStats" =>
                UNCHANGED <<capacity, size, map, heap, nkey, nval, next, prev>>
          /\ (pc'[t] = "exit" /\ op'[t] = "resetStats") =>
                hits' = 0 /\ misses' = 0
          /\ (pc'[t] = "exit" /\ op'[t] = "getHitMissStats") =>
                /\ ret'[t] = RetPair("stats", pre'.hits, pre'.misses)
                /\ \A u \in Threads \ {t} : pc'[u] \in {"idle", "deref"}
      ]_vars

\* resetStats has ended on a cache that holds an entry and had counted a hit
\* and a miss.
C14_Witness ==
    \E t \in Threads :
        /\ AtExit(t, "resetStats") /\ pre.hits = 1 /\ pre.misses = 1 /\ pre.size > 0
        /\ hits = 0 /\ misses = 0 /\ size = pre.size

\* C15: getHitRatio returns the ratio of the hits counted to the gets counted
\* (hits + misses, both as they stood when it took the mutex) when a get has
\* been counted, and 0.0 when none has.  The result is the fraction a / b.
C15_HitRatioIsTrueRatio ==
    \A t \in Threads :
        AtExit(t, "getHitRatio") =>
            /\ ret[t].kind = "ratio" /\ ret[t].b > 0
            /\ IF pre.hits + pre.misses > 0
               THEN ret[t].a * (pre.hits + pre.misses) = pre.hits * ret[t].b
               ELSE ret[t].a = 0

\* C16: what the caller of a successful get reads through the returned
\* reference is the value the key had while that get held the mutex,
\* whatever other callers do before the read.
C16_CallerReadsWhatGetFound ==
    \A t \in Threads : pc[t] = "deref" => ReadValues(t) = {expect[t]}

\* What holds of the counts: whenever no call is in progress, hits and misses
\* are the numbers of gets that returned and that threw since construction or
\* the last resetStats, as unsigned numbers.
CountsMatchModulo ==
    mutex = NoThread =>
        /\ hits = returned % CounterMod
        /\ misses = thrown % CounterMod

\* C18: whenever no call is in progress, hits is the number of gets that
\* returned a value and misses the number that threw, since construction or
\* the last resetStats, however the callers interleave.
C18_CountsMatch ==
    mutex = NoThread => hits = returned /\ misses = thrown

\* C17: every call made returns, whoever else holds or wants the mutex, and
\* only a get ends by throwing (out_of_range); after a get that threw the
\* mutex is free again, so the calls waiting behind it return too.
C17_EveryCallReturns ==
    /\ \A t \in Threads :
          (want[t] # NoCall) ~> (want[t] = NoCall /\ pc[t] \in {"idle", "deref"})
    /\ [](\A t \in Threads : ret[t] = RetThrow => op[t] = "get")
    /\ [](\A t \in Threads : pc[t] \in {"idle", "deref"} => mutex # t)

\* A call waits for the mutex while a get that missed is about to return.
C17_Witness ==
    \E t, u \in Threads :
        /\ t # u /\ want[t] # NoCall
        /\ mutex = u /\ AtExit(u, "get") /\ ret[u] = RetThrow

\* C19: whenever no increment or decrement is in progress the counter is its
\* initial value plus the increments minus the decrements completed, and the
\* getValue main makes after joining the workers returns the initial value
\* plus all their increments minus all their decrements.
C19_NoLostUpdate ==
    /\ counter_m = NoThread => counter = cinit + incs - decs
    /\ final.set =>
          /\ incs = MaxIterations * Cardinality(Workers \ Decrementers)
          /\ decs = MaxIterations * Cardinality(Decrementers)
          /\ final.value = cinit + incs - decs

\* Every worker has finished and main has read the counter, built with 0.
C19_Witness ==
    /\ final.set /\ cinit = 0 /\ final.value = MaxIterations
    /\ incs = 2 * MaxIterations /\ decs = MaxIterations

Gone == PreKeys \ MapKeys

\* The put in progress inserts a key that was absent into a full cache.
Overflowing(t) == op[t] = "put" /\ key[t] \notin PreKeys /\ pre.size = capacity

\* C21: a key leaves the map only in the erase of a remove of that key or in
\* the erase of evictLRU, called by a put that inserts an absent key into a
\* full cache; such a put has lost exactly one key when it ends and never
\* more than one on the way; a remove loses at most its own key, and get,
\* contains, the statistics calls and a put on a present key or into a cache
\* that is not full lose none.
C21_OnlyRemoveAndOverflowEvict ==
    /\ [](\A t \in Threads : Inside(t) =>
            /\ Overflowing(t) => Cardinality(Gone) <= 1
            /\ (Overflowing(t) /\ pc[t] = "exit") => Cardinality(Gone) = 1
            /\ op[t] = "remove" => Gone \subseteq {key[t]}
            /\ (op[t] # "remove" /\ ~Overflowing(t)) => Gone = {})
    /\ [][\A k \in Keys : (map[k] # Nil /\ map'[k] = Nil) =>
            \E t \in Threads :
                /\ mutex = t
                /\ \/ pc[t] = "remove_erase" /\ op[t] = "remove" /\ key[t] = k
                   \/ pc[t] = "evict_erase" /\ Overflowing(t) /\ k # key[t]]_vars

\* Capacity 2: a put of c into a cache holding a and b has evicted one of them.
C21_Witness ==
    \E t \in Threads :
        /\ AtExit(t, "put") /\ key[t] = "c" /\ capacity = 2
        /\ PreKeys = {"a", "b"} /\ Cardinality(Gone) = 1 /\ size = 2

\* The threads inside a public method of the cache.
InsideThreads == {t \in Threads : Inside(t)}

\* C22: a thread is inside a public method exactly while it holds the mutex,
\* so at most one is; a method takes the mutex in its first step and gives it
\* up in its last; and every step that changes the map, a next or prev link,
\* size, hits or misses is a step of the thread that holds the mutex before
\* and after it, inside its method.
C22_EveryAccessUnderTheMutex ==
    /\ [](/\ \A t \in Threads : Inside(t) <=> mutex = t
          /\ Cardinality(InsideThreads) <= 1)
    /\ [][/\ \A t \in Threads :
               /\ (~Inside(t) /\ Inside(t)') => (mutex = NoThread /\ mutex' = t)
               /\ (Inside(t) /\ ~Inside(t)') => (pc[t] = "exit" /\ mutex' = NoThread)
          /\ <<map, next, prev, size, hits, misses>>' # <<map, next, prev, size, hits, misses>> =>
               \E t \in Threads :
                   /\ mutex = t /\ Inside(t)
                   /\ pc'[t] # pc[t]
                   /\ \A u \in Threads \ {t} : pc'[u] = pc[u] /\ ~Inside(u)
                   /\ pc[t] # "exit" => mutex' = t]_vars

\* One thread is in the middle of an eviction, holding the mutex, while the
\* other, back from a get, reads the value outside the cache.
C22_Witness ==
    \E t, u \in Threads :
        /\ t # u /\ mutex = t /\ pc[t] = "evict_erase"
        /\ pc[u] = "deref"

\* The constructor has returned without throwing.
Built == \A t \in Threads : pc[t] \notin {"ctor_init", "ctor_check", "ctor_link", "ctor_threw"}

Sentinels == {head, tail}

\* C23: once the cache is constructed, in every state, inside a method or
\* not: head has a successor and tail a predecessor, each a live node or the
\* other sentinel; head has no predecessor and tail no successor; no map entry
\* is a sentinel; the node a method unlinks, erases or evicts is never a
\* sentinel; and the reference get returns never points into a sentinel.
C23_SentinelsStay ==
    Built =>
        /\ next[head] \in heap \cup {tail}
        /\ prev[tail] \in heap \cup {head}
        /\ prev[head] = Nil /\ next[tail] = Nil
        /\ \A k \in Keys : map[k] \notin Sentinels
        /\ \A t \in Threads :
              /\ node[t] \notin Sentinels
              /\ ref[t] \notin Sentinels
              /\ ret[t].kind = "ref" => ret[t].a \in Nodes
              /\ pc[t] \in {"move_remove", "evict_remove", "remove_remove", "evict_erase"} =>
                    node[t] \in heap

\* A cache constructed with capacity 1 is evicting the older of its two nodes:
\* the victim is the node before tail, the new node the one after head.
C23_Witness ==
    \E t \in Threads :
        /\ Built /\ capacity = 1 /\ pc[t] = "evict_remove"
        /\ node[t] \in Nodes /\ next[node[t]] = tail /\ prev[next[head]] = head

\* The nodes of the chain from head, head included.
ChainFromHead == <<head>> \o ListNodes

\* C24: whenever the mutex is not held, the walk of next links from head ends
\* at tail, meets exactly size nodes, all live and no node twice, and the prev
\* link of the successor of every node of the chain, head included, leads
\* back to that node.
C24_ListIsAChain ==
    mutex = NoThread =>
        /\ ListEnd = tail
        /\ Len(ListNodes) = size
        /\ Cardinality(Range(ListNodes)) = Len(ListNodes)
        /\ Range(ListNodes) \subseteq heap
        /\ \A i \in 1..Len(ChainFromHead) :
              WeakLock(prev[next[ChainFromHead[i]]]) = ChainFromHead[i]

\* The mutex is free and the list holds two nodes in the order opposite to
\* the one they were allocated in: a node was moved to the front.
C24_Witness ==
    /\ mutex = NoThread /\ size = 2
    /\ ListNodes = <<1, 2>> /\ prev[tail] = 2 /\ prev[2] = 1 /\ prev[1] = head

\* The keys of s that are in S, in the order of s.
Restrict(s, S) == SelectSeq(s, LAMBDA x : x \in S)

\* The keys other than the call's own that were present before the call and
\* still are.
Others(t) == (PreKeys \cap MapKeys) \ {key[t]}

\* C25: when a get that found its key, a put or a remove ends, the keys other
\* than the call's own that were present before and still are (all but the
\* one a put evicted) stand in the list in the order they stood in before the
\* call, and so they do in the history of last uses.
C25_OthersKeepTheirOrder ==
    \A t \in Threads :
        (pc[t] = "exit" /\ op[t] \in {"get", "put", "remove"} /\ ret[t] # RetThrow) =>
            /\ Restrict(ListKeys, Others(t)) = Restrict(pre.order, Others(t))
            /\ Restrict(used, Others(t)) = Restrict(pre.used, Others(t))
            /\ Others(t) = IF op[t] = "put" /\ key[t] \notin PreKeys /\ pre.size = capacity
                           THEN PreKeys \ {Last(pre.order)}
                           ELSE PreKeys \ {key[t]}

\* Capacity 3: a put of d into the full cache <<b, a, c>> has evicted c and
\* left b before a.
C25_Witness ==
    \E t \in Threads :
        /\ AtExit(t, "put") /\ key[t] = "d" /\ capacity = 3
        /\ pre.order = <<"b", "a", "c">> /\ ListKeys = <<"d", "b", "a">>
        /\ Others(t) = {"a", "b"}

\* The methods that only report.
Accessors == {"getHitMissStats", "getHitRatio", "getSize", "getCapacity"}

\* C26: no step of a put or of a remove changes hits or misses, whether the
\* key is found or not and whether the put evicts or not; no step of
\* getHitMissStats, getHitRatio, getSize or getCapacity changes capacity,
\* size, the counters, the map, the nodes, the links or the recency history;
\* and capacity is written by the constructor's initialiser only.
C26_FrameOfPutRemoveAndAccessors ==
    [][/\ \A t \in Threads :
            /\ (op[t] \in {"put", "remove"} \/ op'[t] \in {"put", "remove"}) =>
                  hits' = hits /\ misses' = misses
            /\ (op[t] \in Accessors \/ op'[t] \in Accessors) =>
                  /\ lruVars' = lruVars
                  /\ used' = used /\ lastPut' = lastPut
       /\ capacity' # capacity => \E t \in Threads : pc[t] = "ctor_init"
      ]_vars

\* In a cache constructed with capacity 1 that has counted a hit and a miss,
\* a put that evicted ends with the counters as it found them.
C26_Witness ==
    \E t \in Threads :
        /\ Built /\ AtExit(t, "put") /\ capacity = 1
        /\ key[t] \notin PreKeys /\ pre.size = 1
        /\ pre.hits = 1 /\ pre.misses = 1 /\ hits = 1 /\ misses = 1

\* The sum of f over the accounts in S.
RECURSIVE SumOf(_, _)
SumOf(f, S) ==
    IF S = {} THEN 0
    ELSE LET a == CHOOSE x \in S : TRUE IN f[a] + SumOf(f, S \ {a})

\* The sum of the balances the accounts were opened with.
OpeningSum == MaxAmount * Cardinality(Accounts)

\* C27: no balance is ever negative; a transfer about to return has lowered
\* from by its amount and raised to by its amount, a deposit has raised and a
\* withdraw has lowered its account by the amount; a call about to throw
\* insufficient_funds has found less than its amount and changed no balance,
\* and the step in which a call throws (invalid_amount included) changes
\* none; whenever no account's mutex is held the sum of the balances is the
\* opening sum plus the deposits less the withdrawals that returned.
C27_BalancesAreConserved ==
    /\ [](/\ \A a \in Accounts : balance[a] >= 0
          /\ \A t \in Tellers :
                LET c == bcall[t] IN
                /\ bpc[t] = "transfer_unlock" =>
                      balance = [bpre[t] EXCEPT ![c.from] = @ - c.amount,
                                                ![c.to] = @ + c.amount]
                /\ bpc[t] = "transfer_throw" =>
                      balance = bpre[t] /\ bpre[t][c.from] < c.amount
                /\ bpc[t] = "deposit_unlock" =>
                      balance[c.from] = bpre[t][c.from] + c.amount
                /\ bpc[t] = "withdraw_unlock" =>
                      balance[c.from] = bpre[t][c.from] - c.amount
                /\ bpc[t] = "withdraw_throw" =>
                      balance[c.from] = bpre[t][c.from] /\ bpre[t][c.from] < c.amount
          /\ (\A a \in Accounts : account_m[a] = NoThread) =>
                SumOf(balance, Accounts) = OpeningSum + bnet)
    /\ [][\A t \in Tellers :
            /\ (bleft'[t] < bleft[t] /\ bret'[t] # "ok") => balance' = balance
            /\ (bpc[t] = "idle" /\ bpc'[t] # "idle") => bcall'[t].amount > 0 \/ bcall'[t].op = "getBalance"
         ]_vars

\* A transfer of Bob's whole balance to Alice is about to return, after a
\* deposit into one of the accounts returned.
C27_Witness ==
    \E t \in Tellers :
        /\ bpc[t] = "transfer_unlock" /\ bcall[t].from = "Bob" /\ bcall[t].amount > 0
        /\ balance["Bob"] = 0 /\ balance["Alice"] = bpre[t]["Alice"] + bcall[t].amount
        /\ bnet > 0

\* The values the pops have returned, consumer after consumer, and the one a
\* pop that has taken it off the stack is about to return.
RECURSIVE Returned(_)
Returned(S) ==
    IF S = {} THEN <<>>
    ELSE LET r == CHOOSE x \in S : TRUE
         IN popped_values[r]
            \o (IF spc[r] = "pop_unlock" THEN <<sval[r]>> ELSE <<>>)
            \o Returned(S \ {r})

\* The pops that returned a value, over all consumers.
RECURSIVE SuccessfulPops(_)
SuccessfulPops(S) ==
    IF S = {} THEN 0
    ELSE LET r == CHOOSE x \in S : TRUE
         IN Len(popped_values[r]) + SuccessfulPops(S \ {r})

AtRemoveNode(t) == pc[t] \in {"move_remove", "evict_remove", "remove_remove"}
AtAddToFront(t) == pc[t] \in {"move_add", "put_link"}

\* C29: a removeNode step on node n, which is live and lies between its
\* predecessor p and its successor x (head, tail or nodes), leaves p.next = x
\* and x.prev = p, n.next and n.prev null, and every other link as it was; an
\* addToFront step on n leaves head.next = n, n.prev = head, n.next = the
\* former first node f and f.prev = n, and every other link as it was.
C29_RemoveNodeAndAddToFront ==
    [][\A t \in Threads :
          /\ (AtRemoveNode(t) /\ pc'[t] # pc[t]) =>
                LET n == node[t]
                    p == prev[n]
                    x == next[n]
                IN /\ n \in heap /\ p \in AllNodes \ {n} /\ x \in AllNodes \ {n}
                   /\ next[p] = n /\ prev[x] = n
                   /\ next'[p] = x /\ prev'[x] = p
                   /\ next'[n] = Nil /\ prev'[n] = Nil
                   /\ \A m \in AllNodes \ {p, n} : next'[m] = next[m]
                   /\ \A m \in AllNodes \ {x, n} : prev'[m] = prev[m]
          /\ (AtAddToFront(t) /\ pc'[t] # pc[t]) =>
                LET n == node[t]
                    f == next[head]
                IN /\ n \in heap /\ f \in AllNodes \ {n, head}
                   /\ next'[head] = n /\ prev'[n] = head
                   /\ next'[n] = f /\ prev'[f] = n
                   /\ \A m \in AllNodes \ {head, n} : next'[m] = next[m]
                   /\ \A m \in AllNodes \ {f, n} : prev'[m] = prev[m]
      ]_vars

\* get(a) on the list <<b, a, c>> has unlinked a, the middle node: b and c
\* are neighbours and a's links are null, before addToFront(a).
C29_Witness ==
    \E t \in Threads :
        /\ pc[t] = "move_add" /\ op[t] = "get" /\ key[t] = "a"
        /\ pre.order = <<"b", "a", "c">> /\ ListKeys = <<"b", "c">>
        /\ next[node[t]] = Nil /\ prev[node[t]] = Nil
        /\ prev[map["c"]] = map["b"]

====
